---- MODULE Spec2Model ----
(***************************************************************************)
(* Subscription / device / transaction state machine of crsserver.         *)
(*                                                                         *)
(* The store is three collections: subscriptions (subs), transactions      *)
(* (ledger, partitioned by the subscription they belong to, since every    *)
(* query of the code on that collection is by subscription) and devices.   *)
(* Every request handler is one action.  Spec is the life cycle under      *)
(* review and self-service, SpecQ the handlers that act on the queues,     *)
(* SpecU the changes of plan, SpecS the approve-activate-cancel scenario;  *)
(* SpecC and SpecCQ split the handlers the code runs without isolation at  *)
(* their awaits.                                                           *)
(*                                                                         *)
(* Dates are whole days on the clock `now`; prices are cents.              *)
(* queuePosition is a String in the schema: it is kept as the number its   *)
(* decimal digits denote, and every comparison the database makes on it    *)
(* (sort, $gte, $lt) is made on the digits (StrLess), every comparison     *)
(* JavaScript makes with a number operand is numeric.                      *)
(***************************************************************************)
EXTENDS Integers, Sequences, FiniteSets, TLC

VARIABLES subs, ledger, devices, nUsers, users, now, inflight

vars == <<subs, ledger, devices, nUsers, users, now, inflight>>

----------------------------------------------------------------------------
(* Bounds of the model                                                     *)

MaxSubs == 2
MaxUsers == 2
NumImeis == 2
MaxTime == 2
MaxLedger == 4
NumPlanInputs == 2
MaxBulk == 2
MaxInflight == 2

(* the number of TOTP secrets the generator draws from *)
NumSecrets == 2

(* the subscriptions of the store when the queues grow long *)
MaxQueue == 11

(* the priorities an admin may have given: 0..MaxPriority *)
MaxPriority == 1

Imeis == 1..NumImeis
UserIds == 1..MaxUsers
SubIds == 1..MaxSubs

(* the admin of req.user._id in the admin handlers *)
AdminId == 0

(* an unset date / reference (null or undefined in the documents) *)
Null == -1

(* an unset queuePosition (undefined: falsy in `!queuePosition`) *)
NoPos == 0

----------------------------------------------------------------------------
(* Plans: utils/helpers.js                                                 *)

validSubscriptionTypes ==
  <<"mobile-v4-basic", "mobile-v4-premium", "mobile-v4-enterprise",
    "mobile-v5-basic", "mobile-v5-premium", "full-suite-basic",
    "full-suite-premium">>

ValidPlans == { validSubscriptionTypes[i] : i \in DOMAIN validSubscriptionTypes }

(* plans a request may name: the first NumPlanInputs valid ones and one
   that is not a plan *)
PlanInputs ==
  { validSubscriptionTypes[i] : i \in 1..NumPlanInputs } \cup {"no-such-plan"}

getSubscriptionPrice(subscriptionType) ==
  CASE subscriptionType = "mobile-v4-basic"      -> 2999
    [] subscriptionType = "mobile-v4-premium"    -> 4999
    [] subscriptionType = "mobile-v4-enterprise" -> 9999
    [] subscriptionType = "mobile-v5-basic"      -> 3999
    [] subscriptionType = "mobile-v5-premium"    -> 5999
    [] subscriptionType = "full-suite-basic"     -> 7999
    [] subscriptionType = "full-suite-premium"   -> 14999
    [] OTHER                                     -> 2999

getSubscriptionDuration(subscriptionType) ==
  CASE subscriptionType = "mobile-v4-basic"      -> 30
    [] subscriptionType = "mobile-v4-premium"    -> 60
    [] subscriptionType = "mobile-v4-enterprise" -> 90
    [] subscriptionType = "mobile-v5-basic"      -> 30
    [] subscriptionType = "mobile-v5-premium"    -> 60
    [] subscriptionType = "full-suite-basic"     -> 60
    [] subscriptionType = "full-suite-premium"   -> 90
    [] OTHER                                     -> 30

----------------------------------------------------------------------------
(* Helpers on the collections                                              *)

Ids == DOMAIN subs

QueueStatuses == {"QUEUED", "PENDING"}

(* decimal digits of a natural number, most significant first *)
RECURSIVE Digits(_)
Digits(n) == IF n < 10 THEN <<n>> ELSE Append(Digits(n \div 10), n % 10)

(* lexicographic order of two digit strings *)
RECURSIVE SeqLess(_, _)
SeqLess(s, t) ==
  IF s = <<>> THEN t # <<>>
  ELSE IF t = <<>> THEN FALSE
  ELSE IF Head(s) # Head(t) THEN Head(s) < Head(t)
  ELSE SeqLess(Tail(s), Tail(t))

(* the database's order on the String field queuePosition *)
StrLess(a, b) == SeqLess(Digits(a), Digits(b))
StrLeq(a, b) == a = b \/ StrLess(a, b)

(* Subscription.getNextQueuePosition(imei) *)
getNextQueuePosition(S, imei) ==
  LET queued == { i \in DOMAIN S : S[i].imei = imei /\ S[i].status \in QueueStatuses }
      (* findOne(...).sort({queuePosition: -1}): a document whose position
         no other exceeds; documents without the field sort first *)
      lasts == { i \in queued : \A j \in queued :
                   \/ S[j].queuePosition = NoPos
                   \/ /\ S[i].queuePosition # NoPos
                      /\ StrLeq(S[j].queuePosition, S[i].queuePosition) }
  IN IF queued = {} THEN 1
     ELSE LET lastQueued == CHOOSE i \in lasts : TRUE
          IN IF S[lastQueued].queuePosition = NoPos THEN 1
             ELSE S[lastQueued].queuePosition + 1

(* calculateNextQueuePosition(imei, session): called by the device-add
   flow, defined in no file of src; the specification's getNextQueuePosition *)
calculateNextQueuePosition(S, imei) ==
  LET queued == { i \in DOMAIN S : S[i].imei = imei /\ S[i].status \in QueueStatuses
                                   /\ S[i].queuePosition # NoPos }
  IN IF queued = {} THEN 1
     ELSE (CHOOSE m \in { S[i].queuePosition : i \in queued } :
             \A i \in queued : S[i].queuePosition <= m) + 1

(* Device.findOne({imei}); the Device collection is a set of documents *)
DeviceOfImei(D, imei) == { d \in D : d.imei = imei }

(* Device.findOne({user, imei}) *)
DeviceOf(D, user, imei) == { d \in D : d.imei = imei /\ d.user = user }

(* saving a new Device document fails on the unique index of the
   collection on imei (the Device model is in no file of src; the
   specification makes the IMEI unique per device) *)
DeviceSaveFails(D, imei) == DeviceOfImei(D, imei) # {}

(* the subscriptions the store holds once the creations in flight have
   committed *)
SubsCount == Len(subs) + Cardinality({ q \in inflight : q.op = "addDevice" })

(* room left in the ledger chain of a subscription for k more entries *)
LedgerRoom(id, k) == id \in DOMAIN subs => Len(ledger[id]) + k <= MaxLedger

----------------------------------------------------------------------------
(* Transaction ledger                                                      *)

NewTransaction(type, amount, plan, status, processedBy, prev) ==
  [type |-> type, amount |-> amount, plan |-> plan, status |-> status,
   processedBy |-> processedBy, previousTransaction |-> prev,
   relatedTransactions |-> {}]

(* logTransactionUpdate(subscriptionId, type, status, adminId): the ledger
   after the call.  The latest entry of the subscription is the one the
   new entry copies and links to; without one nothing is written. *)
logTransactionUpdate(L, subscriptionId, type, status, adminId) ==
  LET chain == L[subscriptionId]
      n == Len(chain)
  IN IF n > 0
     THEN LET existingTransaction == chain[n]
              newTransaction ==
                NewTransaction(type, existingTransaction.amount,
                               existingTransaction.plan, status, adminId, n)
              linked == [existingTransaction EXCEPT
                           !.relatedTransactions = @ \cup {n + 1}]
          IN [L EXCEPT ![subscriptionId] =
                Append([chain EXCEPT ![n] = linked], newTransaction)]
     ELSE L

----------------------------------------------------------------------------
(* Initial state: empty collections                                         *)

Init ==
  /\ subs = <<>>
  /\ ledger = [i \in SubIds |-> <<>>]
  /\ devices = {}
  /\ nUsers = 0
  /\ users = <<>>
  /\ now = 1
  /\ inflight = {}

NewSubscription(user, imei, plan, queuePosition, startDate, endDate) ==
  [user |-> user, imei |-> imei, plan |-> plan,
   price |-> getSubscriptionPrice(plan), queuePosition |-> queuePosition,
   startDate |-> startDate, endDate |-> endDate, status |-> "PENDING",
   reviewedBy |-> Null, priority |-> 0]

(* the paths of SubscriptionSchema that the model keeps *)
SchemaPaths ==
  {"user", "imei", "plan", "price", "queuePosition", "startDate", "endDate",
   "status", "reviewedBy", "priority"}

(* doc.path = value on a loaded document *)
Assign(doc, path, value) ==
  [p \in DOMAIN doc \cup {path} |-> IF p = path THEN value ELSE doc[p]]

(* subscription.save() under the schema: what was assigned to a key that
   is no path of the schema is not stored *)
save(doc) == [p \in DOMAIN doc \cap SchemaPaths |-> doc[p]]

(* new User({isEmailVerified: false, isActive: false,
   emailVerificationToken, ...}) *)
NewUser ==
  [isEmailVerified |-> FALSE, isActive |-> FALSE, hasToken |-> TRUE,
   (* an unexpired access token signed for the identity is in the hands of
      its client: none at registration *)
   accessToken |-> FALSE]

(* the TOTP secret a device is created with (totpSecret of new Device) *)
CreationSecret == 0

NewDevice(user, imei) ==
  [user |-> user, imei |-> imei, isOnboarded |-> FALSE, totpSecret |-> CreationSecret]

(* time passes *)
Tick ==
  /\ now < MaxTime
  /\ now' = now + 1
  /\ UNCHANGED <<subs, ledger, devices, nUsers, users, inflight>>

----------------------------------------------------------------------------
(* controllers/authController.js: register.  A handler that refuses a      *)
(* request leaves the store as it is; its response code is the Code        *)
(* operator beside it.                                                     *)

(* the response code of register; username, email, password and phone
   number of the request are valid and new *)
registerCode(imei, plan) ==
  IF plan \notin ValidPlans THEN 400
  ELSE IF DeviceSaveFails(devices, imei) THEN 500
  ELSE 201

(* a failure of newDevice.save() deletes the user again *)
register(imei, plan) ==
  /\ nUsers < MaxUsers
  /\ SubsCount < MaxSubs
  /\ IF registerCode(imei, plan) = 201
     THEN LET newUser == nUsers + 1
          IN /\ nUsers' = newUser
             /\ users' = Append(users, NewUser)
             /\ devices' = devices \cup {NewDevice(newUser, imei)}
             /\ subs' = Append(subs,
                  NewSubscription(newUser, imei, plan, NoPos, now,
                                  now + getSubscriptionDuration(plan)))
             /\ UNCHANGED ledger
     ELSE UNCHANGED <<subs, ledger, devices, nUsers, users>>
  /\ UNCHANGED <<now, inflight>>

(* the response of register once the creations are done: the failure of
   sendVerificationEmail is caught and changes the message only *)
registerMailCode(imei, plan, sent) == registerCode(imei, plan)

(* user.activateAccount(): the User model is in no file of src; by the
   specification and the message of the handler the account is verified
   and active afterwards, and its token is used up *)
activateAccount(user) ==
  [user EXCEPT !.isEmailVerified = TRUE, !.isActive = TRUE, !.hasToken = FALSE]

(* the response code of verifyEmail; token: the request carries the valid
   token of userId; sent: sendWelcomeEmail succeeds *)
verifyEmailCode(userId, token, sent) ==
  IF ~token THEN 400
  ELSE IF userId \notin 1..nUsers THEN 400
  ELSE IF ~users[userId].hasToken THEN 400
  ELSE 200

verifyEmail(userId, token, sent) ==
  /\ users' = IF verifyEmailCode(userId, token, sent) = 200
              THEN [users EXCEPT ![userId] = activateAccount(@)]
              ELSE users
  /\ UNCHANGED <<subs, ledger, devices, nUsers, now, inflight>>

(* the response code of resendVerificationEmail for the email of userId *)
resendVerificationCode(userId, sent) ==
  IF userId \notin 1..nUsers THEN 404
  ELSE IF users[userId].isEmailVerified THEN 400
  ELSE IF sent THEN 200
  ELSE 500

(* user.generateVerificationToken() and user.save() come before the email *)
resendVerificationEmail(userId, sent) ==
  /\ users' = IF resendVerificationCode(userId, sent) \in {200, 500}
              THEN [users EXCEPT ![userId].hasToken = TRUE]
              ELSE users
  /\ UNCHANGED <<subs, ledger, devices, nUsers, now, inflight>>

(* the response code of login; isMatch: bcrypt.compare(password,
   user.password) *)
loginCode(userId, isMatch) ==
  IF userId \notin 1..nUsers THEN 401
  ELSE IF ~users[userId].isEmailVerified THEN 403
  ELSE IF ~users[userId].isActive THEN 403
  ELSE IF ~isMatch THEN 401
  ELSE 200

(* login answers with an access and a refresh token or refuses;
   lastLoginAt, isOnline and lastSeen are no state of the model *)
login(userId, isMatch) ==
  /\ users' = IF loginCode(userId, isMatch) = 200
              THEN [users EXCEPT ![userId].accessToken = TRUE]
              ELSE users
  /\ UNCHANGED <<subs, ledger, devices, nUsers, now, inflight>>

(* middleware/auth.js for a request that carries the access token signed
   for userId when there is one: jwt.verify and User.findById, and no look
   at isEmailVerified or isActive *)
authCode(userId) ==
  IF userId \notin 1..nUsers THEN 401
  ELSE IF ~users[userId].accessToken THEN 401
  ELSE 200

(* the response code of passUser behind auth: a token of one hour is
   signed for req.user *)
passUserCode(userId) == authCode(userId)

passUser(userId) ==
  /\ users' = IF passUserCode(userId) = 200
              THEN [users EXCEPT ![userId].accessToken = TRUE]
              ELSE users
  /\ UNCHANGED <<subs, ledger, devices, nUsers, now, inflight>>

(* the hour of expiresIn is over *)
tokenExpired(userId) ==
  /\ userId \in 1..nUsers
  /\ users[userId].accessToken
  /\ users' = [users EXCEPT ![userId].accessToken = FALSE]
  /\ UNCHANGED <<subs, ledger, devices, nUsers, now, inflight>>

(* utils/migration.js, --force-verification: User.updateMany({}, {$set:
   {isEmailVerified: false, isActive: false, emailVerificationToken: null}}) *)
forceVerificationForExistingUsers ==
  /\ users' = [u \in DOMAIN users |->
                [users[u] EXCEPT !.isEmailVerified = FALSE, !.isActive = FALSE,
                                 !.hasToken = FALSE]]
  /\ UNCHANGED <<subs, ledger, devices, nUsers, now, inflight>>

----------------------------------------------------------------------------
(* controllers/deviceController.js: addNewDeviceToExisitingUser.           *)
(* Everything between startTransaction and commitTransaction is one         *)
(* transaction of the store.  phoneNumber, isNewUser and submissionNotes    *)
(* are free identifiers of the handler and carry no state of the model.     *)

addNewDeviceCode(userId, imei, plan) ==
  IF plan \notin ValidPlans THEN 400
  ELSE IF userId > nUsers THEN 404
  ELSE IF \E i \in Ids : /\ subs[i].imei = imei
                         /\ subs[i].user = userId
                         /\ subs[i].status = "ACTIVE" THEN 400
  ELSE IF \E d \in DeviceOfImei(devices, imei) :
            d.user # Null /\ d.user # userId THEN 400
  ELSE 201

(* the store the handler leaves: on a refusal the one it found *)
addNewDeviceOutcome(userId, imei, plan) ==
  IF addNewDeviceCode(userId, imei, plan) = 201
  THEN LET queuePosition == calculateNextQueuePosition(subs, imei)
           id == Len(subs) + 1
       IN [devices |->
             IF DeviceOfImei(devices, imei) = {}
             THEN devices \cup {NewDevice(userId, imei)}
             ELSE { IF d.imei = imei /\ d.user = Null
                    THEN [d EXCEPT !.user = userId] ELSE d : d \in devices },
           subs |-> Append(subs,
             NewSubscription(userId, imei, plan, queuePosition, Null, Null)),
           ledger |-> [ledger EXCEPT ![id] =
             <<NewTransaction("SUBSCRIPTION_CREATED",
                              getSubscriptionPrice(plan), plan,
                              "PENDING", Null, Null)>>]]
  ELSE [devices |-> devices, subs |-> subs, ledger |-> ledger]

addNewDeviceToExisitingUser(userId, imei, plan) ==
  /\ SubsCount < MaxSubs
  /\ devices' = addNewDeviceOutcome(userId, imei, plan).devices
  /\ subs' = addNewDeviceOutcome(userId, imei, plan).subs
  /\ ledger' = addNewDeviceOutcome(userId, imei, plan).ledger
  /\ UNCHANGED <<nUsers, users, now, inflight>>

----------------------------------------------------------------------------
(* controllers/adminController.js                                          *)

(* Subscription.findOne({user, status: "ACTIVE", _id: {$ne: id}}) *)
existingActive(S, id) ==
  \E j \in DOMAIN S : j # id /\ S[j].user = S[id].user /\ S[j].status = "ACTIVE"

(* Subscription.findOne({imei, status: "ACTIVE", _id: {$ne: id}}) *)
deviceActive(S, id) ==
  \E j \in DOMAIN S : j # id /\ S[j].imei = S[id].imei /\ S[j].status = "ACTIVE"

(* the response code of approveSubscription in the current state *)
approveCode(id) ==
  IF id \notin Ids THEN 404
  ELSE IF subs[id].status # "PENDING" THEN 400
  ELSE IF existingActive(subs, id) THEN 400
  ELSE IF deviceActive(subs, id) THEN 400
  ELSE 200

(* the document approveSubscription saves *)
approved(sub, activateNow) ==
  IF activateNow
  THEN [sub EXCEPT !.status = "ACTIVE", !.startDate = now,
                   !.endDate = now + getSubscriptionDuration(sub.plan),
                   !.reviewedBy = AdminId]
  ELSE [sub EXCEPT !.status = "APPROVED", !.reviewedBy = AdminId]

(* the store approveSubscription leaves: on a refusal the one it found *)
approveOutcome(id, activateNow) ==
  IF approveCode(id) = 200
  THEN [subs |-> [subs EXCEPT ![id] = approved(subs[id], activateNow)],
        ledger |-> logTransactionUpdate(ledger, id,
                     IF activateNow THEN "SUBSCRIPTION_ACTIVATED"
                                    ELSE "SUBSCRIPTION_APPROVED",
                     IF activateNow THEN "COMPLETED" ELSE "PENDING", AdminId)]
  ELSE [subs |-> subs, ledger |-> ledger]

approveSubscription(id, activateNow) ==
  /\ LedgerRoom(id, 1)
  /\ subs' = approveOutcome(id, activateNow).subs
  /\ ledger' = approveOutcome(id, activateNow).ledger
  /\ UNCHANGED <<devices, nUsers, users, now, inflight>>

(* rejectSubscription without the check of the reason *)
rejectCodeAnyReason(id, reason) ==
  IF id \notin Ids THEN 404
  ELSE IF subs[id].status # "PENDING" THEN 400
  ELSE 200

rejectCode(id, reason) ==
  IF ~reason THEN 400
  ELSE IF id \notin Ids THEN 404
  ELSE IF subs[id].status # "PENDING" THEN 400
  ELSE 200

(* reason: whether the request carries a non-empty rejection reason *)
(* the store rejectSubscription leaves: on a refusal the one it found *)
rejectOutcome(id, reason) ==
  IF rejectCode(id, reason) = 200
  THEN [subs |-> [subs EXCEPT ![id].status = "CANCELLED",
                              ![id].reviewedBy = AdminId],
        ledger |-> logTransactionUpdate(ledger, id,
                     "SUBSCRIPTION_REJECTED", "FAILED", AdminId)]
  ELSE [subs |-> subs, ledger |-> ledger]

rejectSubscription(id, reason) ==
  /\ LedgerRoom(id, 1)
  /\ subs' = rejectOutcome(id, reason).subs
  /\ ledger' = rejectOutcome(id, reason).ledger
  /\ UNCHANGED <<devices, nUsers, users, now, inflight>>

(* activateSubscription without the check for conflicts *)
activateCodeNoConflict(id) ==
  IF id \notin Ids THEN 404
  ELSE IF subs[id].status # "APPROVED" THEN 400
  ELSE 200

activateCode(id) ==
  IF id \notin Ids THEN 404
  ELSE IF subs[id].status # "APPROVED" THEN 400
  ELSE IF existingActive(subs, id) \/ deviceActive(subs, id) THEN 400
  ELSE 200

(* the store the admin's activateSubscription leaves *)
activateOutcome(id) ==
  IF activateCode(id) = 200
  THEN [subs |-> [subs EXCEPT
                    ![id].status = "ACTIVE", ![id].startDate = now,
                    ![id].endDate = now + getSubscriptionDuration(subs[id].plan)],
        ledger |-> logTransactionUpdate(ledger, id,
                     "SUBSCRIPTION_ACTIVATED", "COMPLETED", AdminId)]
  ELSE [subs |-> subs, ledger |-> ledger]

activateSubscription(id) ==
  /\ LedgerRoom(id, 1)
  /\ subs' = activateOutcome(id).subs
  /\ ledger' = activateOutcome(id).ledger
  /\ UNCHANGED <<devices, nUsers, users, now, inflight>>

(* the updateMany of updateQueuePosition: every PENDING document but the
   target whose position the database finds in the range moves by one; the
   filter names no imei.  JavaScript chooses the branch by the numeric
   comparison newPosition < oldPosition, false for an undefined position,
   and a range bounded by an undefined value matches no document. *)
shiftQueue(S, id, oldPosition, newPosition) ==
  [j \in DOMAIN S |->
     IF /\ j # id
        /\ S[j].status = "PENDING"
        /\ S[j].queuePosition # NoPos
        /\ oldPosition # NoPos
     THEN IF newPosition < oldPosition
          THEN IF /\ StrLeq(newPosition, S[j].queuePosition)
                  /\ StrLess(S[j].queuePosition, oldPosition)
               THEN [S[j] EXCEPT !.queuePosition = @ + 1]
               ELSE S[j]
          ELSE IF /\ StrLess(oldPosition, S[j].queuePosition)
                  /\ StrLeq(S[j].queuePosition, newPosition)
               THEN [S[j] EXCEPT !.queuePosition = @ - 1]
               ELSE S[j]
     ELSE S[j]]

updateQueuePositionCode(id, newPosition) ==
  IF newPosition < 1 THEN 400
  ELSE IF id \notin Ids THEN 404
  ELSE IF subs[id].status # "PENDING" THEN 400
  ELSE 200

(* newPosition is a number of the request body, oldPosition a string of
   the document: newPosition !== oldPosition always holds *)
updateQueuePositionOutcome(id, newPosition) ==
  IF updateQueuePositionCode(id, newPosition) = 200
  THEN [subs |-> [shiftQueue(subs, id, subs[id].queuePosition, newPosition)
                    EXCEPT ![id].queuePosition = newPosition],
        ledger |-> logTransactionUpdate(ledger, id,
                     "QUEUE_POSITION_UPDATED", "PENDING", AdminId)]
  ELSE [subs |-> subs, ledger |-> ledger]

updateQueuePosition(id, newPosition) ==
  /\ LedgerRoom(id, 1)
  /\ subs' = updateQueuePositionOutcome(id, newPosition).subs
  /\ ledger' = updateQueuePositionOutcome(id, newPosition).ledger
  /\ UNCHANGED <<devices, nUsers, users, now, inflight>>

(* the result of an id that is not found or not PENDING *)
bulkFailed(id) ==
  [id |-> id, status |-> "failed", reason |-> "Invalid status or not found",
   success |-> FALSE]

(* the collection as the findById of one id of a bulk operation sees it:
   Promise.all starts every findById before any save, so an id that stands
   twice in the list may be read before (early) or after the save of its
   other occurrence *)
bulkFound(st, early) == IF early THEN st.read ELSE st.subs

(* one id of a bulk approve: the store after it and its result *)
bulkApproveOne(st, id, activateNow, early) ==
  IF id \in DOMAIN st.subs /\ bulkFound(st, early)[id].status = "PENDING"
  THEN [st EXCEPT
         !.subs = [st.subs EXCEPT
                    ![id].status = IF activateNow THEN "ACTIVE" ELSE "APPROVED",
                    ![id].reviewedBy = AdminId,
                    ![id].startDate = IF activateNow THEN now ELSE @,
                    ![id].endDate =
                      IF activateNow
                      THEN now + getSubscriptionDuration(st.subs[id].plan)
                      ELSE @],
         !.ledger = logTransactionUpdate(st.ledger, id,
                     IF activateNow THEN "SUBSCRIPTION_ACTIVATED"
                                    ELSE "SUBSCRIPTION_APPROVED",
                     IF activateNow THEN "COMPLETED" ELSE "PENDING", AdminId),
         !.results = Append(@, [id |-> id, status |-> "approved", success |-> TRUE])]
  ELSE [st EXCEPT !.results = Append(@, bulkFailed(id))]

(* one id of a bulk reject *)
bulkRejectOne(st, id, early) ==
  IF id \in DOMAIN st.subs /\ bulkFound(st, early)[id].status = "PENDING"
  THEN [st EXCEPT
         !.subs = [st.subs EXCEPT ![id].status = "CANCELLED",
                                  ![id].reviewedBy = AdminId],
         !.ledger = logTransactionUpdate(st.ledger, id,
                     "SUBSCRIPTION_REJECTED", "FAILED", AdminId),
         !.results = Append(@, [id |-> id, status |-> "rejected", success |-> TRUE])]
  ELSE [st EXCEPT !.results = Append(@, bulkFailed(id))]

(* a bulk operation that stops at the first id that fails *)
RECURSIVE bulkFoldAbort(_, _, _, _, _)
bulkFoldAbort(st, subscriptionIds, action, activateNow, early) ==
  IF subscriptionIds = <<>> THEN st
  ELSE LET one == IF action = "approve"
                  THEN bulkApproveOne(st, Head(subscriptionIds), activateNow, Head(early))
                  ELSE bulkRejectOne(st, Head(subscriptionIds), Head(early))
       IN IF ~one.results[Len(one.results)].success THEN one
          ELSE bulkFoldAbort(one, Tail(subscriptionIds), action, activateNow, Tail(early))

(* the ids of a bulk operation, each with its own try and catch, in the
   order of the list *)
RECURSIVE bulkFold(_, _, _, _, _)
bulkFold(st, subscriptionIds, action, activateNow, early) ==
  IF subscriptionIds = <<>> THEN st
  ELSE bulkFold(IF action = "approve"
                THEN bulkApproveOne(st, Head(subscriptionIds), activateNow, Head(early))
                ELSE bulkRejectOne(st, Head(subscriptionIds), Head(early)),
                Tail(subscriptionIds), action, activateNow, Tail(early))

BulkIdLists == UNION { [1..n -> SubIds] : n \in 1..MaxBulk }

(* the bodies of the bulk requests: lists of ids with an approve (with or
   without activateNow) or a reject with a reason, and one request of each
   kind the handler refuses whatever the ids *)
BulkRequests ==
  { [subscriptionIds |-> l, action |-> "approve", activateNow |-> a, reason |-> FALSE] :
      l \in BulkIdLists, a \in BOOLEAN }
  \cup { [subscriptionIds |-> l, action |-> "reject", activateNow |-> FALSE, reason |-> TRUE] :
      l \in BulkIdLists }
  \cup { [subscriptionIds |-> <<>>, action |-> "approve", activateNow |-> FALSE, reason |-> FALSE],
         [subscriptionIds |-> <<1>>, action |-> "reject", activateNow |-> FALSE, reason |-> FALSE],
         [subscriptionIds |-> <<1>>, action |-> "under_review", activateNow |-> FALSE, reason |-> FALSE] }

(* the orders in which the reads of a bulk operation may fall: the read of
   an id that no earlier element of the list names sees the same document
   early or late *)
BulkReads(subscriptionIds) ==
  { early \in [DOMAIN subscriptionIds -> BOOLEAN] :
      \A i \in DOMAIN subscriptionIds :
        (\A j \in 1..(i - 1) : subscriptionIds[j] # subscriptionIds[i]) => early[i] }

(* the response code of a bulk operation *)
bulkCode(subscriptionIds, action, reason) ==
  IF subscriptionIds = <<>> THEN 400
  ELSE IF action \notin {"approve", "reject"} THEN 400
  ELSE IF action = "reject" /\ ~reason THEN 400
  ELSE 200

(* the store after the bulk operation and the results it returns *)
bulkOutcome(subscriptionIds, action, activateNow, reason, early) ==
  IF bulkCode(subscriptionIds, action, reason) = 200
  THEN bulkFold([subs |-> subs, ledger |-> ledger, results |-> <<>>, read |-> subs],
                subscriptionIds, action, activateNow, early)
  ELSE [subs |-> subs, ledger |-> ledger, results |-> <<>>, read |-> subs]

bulkUpdateSubscriptions(subscriptionIds, action, activateNow, reason, early) ==
  /\ \A i \in DOMAIN subscriptionIds : LedgerRoom(subscriptionIds[i], Len(subscriptionIds))
  /\ subs' = bulkOutcome(subscriptionIds, action, activateNow, reason, early).subs
  /\ ledger' = bulkOutcome(subscriptionIds, action, activateNow, reason, early).ledger
  /\ UNCHANGED <<devices, nUsers, users, now, inflight>>

----------------------------------------------------------------------------
(* models/subscription.js: the statics and methods of the model            *)

(* subscription.moveToQueue(adminId, notes) *)
moveToQueue(id) ==
  /\ id \in Ids
  /\ subs' = [subs EXCEPT
       ![id].status = "QUEUED",
       ![id].queuePosition =
          IF @ = NoPos THEN getNextQueuePosition(subs, subs[id].imei) ELSE @]
  /\ UNCHANGED <<ledger, devices, nUsers, users, now, inflight>>

(* i comes before j in sort({priority: -1, createdAt: 1}); the ids of the
   model are given in the order of creation *)
QueueBefore(S, i, j) ==
  \/ S[i].priority > S[j].priority
  \/ S[i].priority = S[j].priority /\ i < j

(* a reordering by the time of creation alone *)
reorderDeviceQueueOutcomeFifo(S, imei) ==
  LET queuedSubs == { i \in DOMAIN S : S[i].imei = imei /\ S[i].status \in QueueStatuses }
  IN [i \in DOMAIN S |->
        IF i \in queuedSubs
        THEN [S[i] EXCEPT !.queuePosition =
                1 + Cardinality({ j \in queuedSubs : j < i })]
        ELSE S[i]]

(* Subscription.reorderDeviceQueue(imei): the collection after it.  The
   document at index i of the sorted find gets (i + 1).toString(), i the
   number of documents the sort puts before it. *)
reorderDeviceQueueOutcome(S, imei) ==
  LET queuedSubs == { i \in DOMAIN S : S[i].imei = imei /\ S[i].status \in QueueStatuses }
  IN [i \in DOMAIN S |->
        IF i \in queuedSubs
        THEN [S[i] EXCEPT !.queuePosition =
                1 + Cardinality({ j \in queuedSubs : QueueBefore(S, j, i) })]
        ELSE S[i]]

reorderDeviceQueue(imei) ==
  /\ subs' = reorderDeviceQueueOutcome(subs, imei)
  /\ UNCHANGED <<ledger, devices, nUsers, users, now, inflight>>

----------------------------------------------------------------------------
(* controllers/subscriptionController.js                                   *)

(* SUBSCRIPTION_TYPES[subscriptionType] || 30 *)
SUBSCRIPTION_TYPES(subscriptionType) == getSubscriptionDuration(subscriptionType)

(* subscription.subscriptionType: the schema has no such path *)
NoSubscriptionType == "undefined"

(* the OTP activation without the check of the owner *)
activateOtpCodeAnyUser(userId, subscriptionId, imei, verified) ==
  IF subscriptionId \notin Ids THEN 404
  ELSE IF subs[subscriptionId].status # "QUEUED" THEN 400
  ELSE IF subs[subscriptionId].imei # imei THEN 400
  ELSE IF DeviceOf(devices, userId, imei) = {} THEN 404
  ELSE IF ~verified THEN 400
  ELSE 200

(* the response code of the OTP activation; verified is the result of
   speakeasy.totp.verify on the code of the request *)
activateOtpCode(userId, subscriptionId, imei, verified) ==
  IF subscriptionId \notin Ids THEN 404
  ELSE IF subs[subscriptionId].user # userId THEN 403
  ELSE IF subs[subscriptionId].status # "QUEUED" THEN 400
  ELSE IF subs[subscriptionId].imei # imei THEN 400
  ELSE IF DeviceOf(devices, userId, imei) = {} THEN 404
  ELSE IF ~verified THEN 400
  ELSE 200

(* activateSubscription of the subscription controller *)
(* the store the OTP activation leaves: the two findByIdAndUpdate *)
activateOtpOutcome(userId, subscriptionId, imei, verified) ==
  IF activateOtpCode(userId, subscriptionId, imei, verified) = 200
  THEN [subs |-> [subs EXCEPT
                    ![subscriptionId].status = "ACTIVE",
                    ![subscriptionId].startDate = now,
                    ![subscriptionId].endDate =
                       now + SUBSCRIPTION_TYPES(NoSubscriptionType)],
        devices |-> { IF d \in DeviceOf(devices, userId, imei)
                      THEN [d EXCEPT !.isOnboarded = TRUE] ELSE d : d \in devices }]
  ELSE [subs |-> subs, devices |-> devices]

activateSubscriptionOtp(userId, subscriptionId, imei, verified) ==
  /\ subs' = activateOtpOutcome(userId, subscriptionId, imei, verified).subs
  /\ devices' = activateOtpOutcome(userId, subscriptionId, imei, verified).devices
  /\ UNCHANGED <<ledger, nUsers, users, now, inflight>>

(* the store after an OTP activation whose Device.findByIdAndUpdate throws
   (an error of the store): Subscription.findByIdAndUpdate, which names no
   session, has been applied before it, and abortTransaction in the catch
   undoes nothing that was written outside the session *)
activateOtpDeviceErrorOutcome(userId, subscriptionId, imei) ==
  IF activateOtpCode(userId, subscriptionId, imei, TRUE) = 200
  THEN [subs |-> [subs EXCEPT ![subscriptionId].status = "ACTIVE",
                    ![subscriptionId].startDate = now,
                    ![subscriptionId].endDate = now + SUBSCRIPTION_TYPES(NoSubscriptionType)],
        devices |-> devices]
  ELSE [subs |-> subs, devices |-> devices]

(* the OTP activation that ends with the error response of that failure *)
activateSubscriptionOtpDeviceError(userId, subscriptionId, imei) ==
  /\ subs' = activateOtpDeviceErrorOutcome(userId, subscriptionId, imei).subs
  /\ devices' = activateOtpDeviceErrorOutcome(userId, subscriptionId, imei).devices
  /\ UNCHANGED <<ledger, nUsers, users, now, inflight>>

(* setupDeviceOtp whose upsert never meets the unique index *)
setupDeviceCodeNoIndex(userId, imei) == 200

(* the response code of setupDeviceOtp for a request with imei and
   deviceName: the upsert finds the device of the caller, or inserts one
   and fails with a duplicate key (code 11000) when the IMEI has a device *)
setupDeviceCode(userId, imei) ==
  IF DeviceOf(devices, userId, imei) # {} THEN 200
  ELSE IF DeviceSaveFails(devices, imei) THEN 400
  ELSE 200

(* the secrets speakeasy.generateSecret({length: 20}) may give: a random
   value, which is none of the secrets D holds *)
generateSecret(D) == (1..NumSecrets) \ { d.totpSecret : d \in D }

(* an upsert that leaves the secret of a device it finds as it is *)
setupDeviceOutcomeKeepSecret(userId, imei, secret) ==
  IF setupDeviceCode(userId, imei) # 200 THEN devices
  ELSE IF DeviceOf(devices, userId, imei) # {}
  THEN { IF d \in DeviceOf(devices, userId, imei)
         THEN [d EXCEPT !.isOnboarded = FALSE] ELSE d : d \in devices }
  ELSE devices \cup {[NewDevice(userId, imei) EXCEPT !.totpSecret = secret]}

(* Device.findOneAndUpdate({user, imei}, {..., totpSecret: secret.base32,
   isOnboarded: false}, {upsert: true}): the devices after it *)
setupDeviceOutcome(userId, imei, secret) ==
  IF setupDeviceCode(userId, imei) # 200 THEN devices
  ELSE IF DeviceOf(devices, userId, imei) # {}
  THEN { IF d \in DeviceOf(devices, userId, imei)
         THEN [d EXCEPT !.isOnboarded = FALSE, !.totpSecret = secret] ELSE d :
         d \in devices }
  ELSE devices \cup {[NewDevice(userId, imei) EXCEPT !.totpSecret = secret]}

setupDeviceOtp(userId, imei, secret) ==
  /\ userId \in 1..nUsers
  /\ secret \in generateSecret(DeviceOf(devices, userId, imei))
  /\ devices' = setupDeviceOutcome(userId, imei, secret)
  /\ UNCHANGED <<subs, ledger, nUsers, users, now, inflight>>

(* transaction.updateStatus(status, ...): the Transaction model is in no
   file of src; by the specification a new entry that supersedes the
   entry is appended *)
updateStatus(chain, status) ==
  LET n == Len(chain)
  IN Append(chain, [chain[n] EXCEPT !.status = status,
                                    !.previousTransaction = n,
                                    !.relatedTransactions = {}])

(* Subscription.findOne({_id, user, status}) finds the document *)
findOwn(userId, subscriptionId, status) ==
  /\ subscriptionId \in Ids
  /\ subs[subscriptionId].user = userId
  /\ subs[subscriptionId].status = status

(* upgradeCode with the comparison of the prices made strict *)
upgradeCodeStrict(userId, subscriptionId, newPlan) ==
  IF ~findOwn(userId, subscriptionId, "ACTIVE") THEN 404
  ELSE IF getSubscriptionPrice(newPlan) < subs[subscriptionId].price THEN 400
  ELSE 200

upgradeCode(userId, subscriptionId, newPlan) ==
  IF ~findOwn(userId, subscriptionId, "ACTIVE") THEN 404
  ELSE IF getSubscriptionPrice(newPlan) <= subs[subscriptionId].price THEN 400
  ELSE 200

(* an upgrade that counts the duration of the new plan from the time of
   the upgrade *)
upgradeOutcomeFromNow(userId, subscriptionId, newPlan) ==
  IF upgradeCode(userId, subscriptionId, newPlan) = 200
  THEN [ledger |-> [ledger EXCEPT ![subscriptionId] =
               updateStatus(Append(@,
                 NewTransaction("SUBSCRIPTION_UPGRADED",
                                getSubscriptionPrice(newPlan) - subs[subscriptionId].price,
                                newPlan, "PENDING", Null, Null)),
                 "COMPLETED")],
        subs |-> [subs EXCEPT
               ![subscriptionId].plan = newPlan,
               ![subscriptionId].price = getSubscriptionPrice(newPlan),
               ![subscriptionId].endDate = now + getSubscriptionDuration(newPlan)]]
  ELSE [ledger |-> ledger, subs |-> subs]

(* an upgrade that changes the plan and keeps the price *)
upgradeOutcomeOldPrice(userId, subscriptionId, newPlan) ==
  IF upgradeCode(userId, subscriptionId, newPlan) = 200
  THEN [ledger |-> [ledger EXCEPT ![subscriptionId] =
               updateStatus(Append(@,
                 NewTransaction("SUBSCRIPTION_UPGRADED",
                                getSubscriptionPrice(newPlan) - subs[subscriptionId].price,
                                newPlan, "PENDING", Null, Null)),
                 "COMPLETED")],
        subs |-> [subs EXCEPT
               ![subscriptionId].plan = newPlan,
               ![subscriptionId].endDate =
                  subs[subscriptionId].startDate + getSubscriptionDuration(newPlan)]]
  ELSE [ledger |-> ledger, subs |-> subs]

(* the subscriptions and the ledger after the upgrade: the new end date
   counts the duration of the new plan from startDate *)
upgradeOutcome(userId, subscriptionId, newPlan) ==
  IF upgradeCode(userId, subscriptionId, newPlan) = 200
  THEN [ledger |-> [ledger EXCEPT ![subscriptionId] =
               updateStatus(Append(@,
                 NewTransaction("SUBSCRIPTION_UPGRADED",
                                getSubscriptionPrice(newPlan) - subs[subscriptionId].price,
                                newPlan, "PENDING", Null, Null)),
                 "COMPLETED")],
        subs |-> [subs EXCEPT
               ![subscriptionId].plan = newPlan,
               ![subscriptionId].price = getSubscriptionPrice(newPlan),
               ![subscriptionId].endDate =
                  subs[subscriptionId].startDate + getSubscriptionDuration(newPlan)]]
  ELSE [ledger |-> ledger, subs |-> subs]

upgradeSubscription(userId, subscriptionId, newPlan) ==
  /\ LedgerRoom(subscriptionId, 2)
  /\ ledger' = upgradeOutcome(userId, subscriptionId, newPlan).ledger
  /\ subs' = upgradeOutcome(userId, subscriptionId, newPlan).subs
  /\ UNCHANGED <<devices, nUsers, users, now, inflight>>

downgradeCode(userId, subscriptionId) ==
  IF findOwn(userId, subscriptionId, "ACTIVE") THEN 200 ELSE 404

(* the subscriptions and the ledger after the downgrade: the ledger entry,
   then pendingPlanChange assigned to the document and the document saved *)
downgradeOutcome(userId, subscriptionId, newPlan) ==
  IF downgradeCode(userId, subscriptionId) = 200
  THEN [ledger |-> [ledger EXCEPT ![subscriptionId] = Append(@,
            NewTransaction("SUBSCRIPTION_DOWNGRADED", 0, newPlan,
                           "COMPLETED", Null, Null))],
        subs |-> [subs EXCEPT ![subscriptionId] =
            save(Assign(@, "pendingPlanChange",
                   [newPlan |-> newPlan, newPrice |-> getSubscriptionPrice(newPlan),
                    effectiveDate |-> subs[subscriptionId].endDate]))]]
  ELSE [ledger |-> ledger, subs |-> subs]

downgradeSubscription(userId, subscriptionId, newPlan) ==
  /\ LedgerRoom(subscriptionId, 1)
  /\ ledger' = downgradeOutcome(userId, subscriptionId, newPlan).ledger
  /\ subs' = downgradeOutcome(userId, subscriptionId, newPlan).subs
  /\ UNCHANGED <<devices, nUsers, users, now, inflight>>

cancelCode(userId, subscriptionId) ==
  IF findOwn(userId, subscriptionId, "ACTIVE") THEN 200 ELSE 404

(* cancelOutcome that ends the subscription whatever immediate is *)
cancelOutcomeImmediate(userId, subscriptionId, immediate) ==
  IF cancelCode(userId, subscriptionId) = 200
  THEN [ledger |-> [ledger EXCEPT ![subscriptionId] = Append(@,
               NewTransaction("SUBSCRIPTION_CANCELLED", 0,
                              subs[subscriptionId].plan, "COMPLETED", Null, Null))],
        subs |-> [subs EXCEPT ![subscriptionId] =
               save(Assign(Assign(@, "status", "CANCELLED"), "endDate", now))]]
  ELSE [ledger |-> ledger, subs |-> subs]

(* a cancellation at once that dates the end a day back *)
cancelOutcomeBackdated(userId, subscriptionId, immediate) ==
  IF cancelCode(userId, subscriptionId) = 200
  THEN [ledger |-> [ledger EXCEPT ![subscriptionId] = Append(@,
               NewTransaction("SUBSCRIPTION_CANCELLED", 0,
                              subs[subscriptionId].plan, "COMPLETED", Null, Null))],
        subs |-> [subs EXCEPT ![subscriptionId] =
               IF immediate
               THEN save(Assign(Assign(@, "status", "CANCELLED"), "endDate", now - 1))
               ELSE save(Assign(Assign(@, "cancelledAt", now),
                                "cancellationReason", "reason"))]]
  ELSE [ledger |-> ledger, subs |-> subs]

(* the subscriptions and the ledger after the cancellation: the ledger
   entry, then the assignments to the document and its save *)
cancelOutcome(userId, subscriptionId, immediate) ==
  IF cancelCode(userId, subscriptionId) = 200
  THEN [ledger |-> [ledger EXCEPT ![subscriptionId] = Append(@,
               NewTransaction("SUBSCRIPTION_CANCELLED", 0,
                              subs[subscriptionId].plan, "COMPLETED", Null, Null))],
        subs |-> [subs EXCEPT ![subscriptionId] =
               IF immediate
               THEN save(Assign(Assign(@, "status", "CANCELLED"), "endDate", now))
               ELSE save(Assign(Assign(@, "cancelledAt", now),
                                "cancellationReason", "reason"))]]
  ELSE [ledger |-> ledger, subs |-> subs]

cancelSubscription(userId, subscriptionId, immediate) ==
  /\ LedgerRoom(subscriptionId, 1)
  /\ ledger' = cancelOutcome(userId, subscriptionId, immediate).ledger
  /\ subs' = cancelOutcome(userId, subscriptionId, immediate).subs
  /\ UNCHANGED <<devices, nUsers, users, now, inflight>>

(* renewCode that looks for the subscription of the caller in any status
   but ACTIVE *)
renewCodeNotActive(userId, subscriptionId) ==
  IF /\ subscriptionId \in Ids
     /\ subs[subscriptionId].user = userId
     /\ subs[subscriptionId].status # "ACTIVE"
  THEN 200 ELSE 404

renewCode(userId, subscriptionId) ==
  IF findOwn(userId, subscriptionId, "EXPIRED") THEN 200 ELSE 404

(* the subscriptions and the ledger after the renewal: the ledger entry
   and its completion, then the assignments to the document and its save *)
renewOutcome(userId, subscriptionId) ==
  IF renewCode(userId, subscriptionId) = 200
  THEN [ledger |-> [ledger EXCEPT ![subscriptionId] =
               updateStatus(Append(@,
                 NewTransaction("SUBSCRIPTION_ACTIVATED",
                                subs[subscriptionId].price,
                                subs[subscriptionId].plan, "PENDING", Null, Null)),
                 "COMPLETED")],
        subs |-> [subs EXCEPT ![subscriptionId] =
               save(Assign(Assign(Assign(Assign(Assign(@,
                 "status", "ACTIVE"),
                 "startDate", now),
                 "endDate", now + getSubscriptionDuration(subs[subscriptionId].plan)),
                 "cancelledAt", Null),
                 "cancellationReason", Null))]]
  ELSE [ledger |-> ledger, subs |-> subs]

renewSubscription(userId, subscriptionId) ==
  /\ LedgerRoom(subscriptionId, 2)
  /\ ledger' = renewOutcome(userId, subscriptionId).ledger
  /\ subs' = renewOutcome(userId, subscriptionId).subs
  /\ UNCHANGED <<devices, nUsers, users, now, inflight>>

(* the store after an upgrade whose subscription.save() throws (an error
   of the store): transaction.save() has been applied before it, and the
   handler runs in no transaction *)
upgradeSaveErrorOutcome(userId, subscriptionId, newPlan) ==
  IF upgradeCode(userId, subscriptionId, newPlan) = 200
  THEN [ledger |-> [ledger EXCEPT ![subscriptionId] = Append(@,
                 NewTransaction("SUBSCRIPTION_UPGRADED",
                                getSubscriptionPrice(newPlan) - subs[subscriptionId].price,
                                newPlan, "PENDING", Null, Null))],
        subs |-> subs]
  ELSE [ledger |-> ledger, subs |-> subs]

(* the same for a cancellation *)
cancelSaveErrorOutcome(userId, subscriptionId) ==
  IF cancelCode(userId, subscriptionId) = 200
  THEN [ledger |-> [ledger EXCEPT ![subscriptionId] = Append(@,
               NewTransaction("SUBSCRIPTION_CANCELLED", 0,
                              subs[subscriptionId].plan, "COMPLETED", Null, Null))],
        subs |-> subs]
  ELSE [ledger |-> ledger, subs |-> subs]

(* the same for a renewal, whose ledger entry is completed before the
   subscription is saved *)
renewSaveErrorOutcome(userId, subscriptionId) ==
  IF renewCode(userId, subscriptionId) = 200
  THEN [ledger |-> [ledger EXCEPT ![subscriptionId] =
               updateStatus(Append(@,
                 NewTransaction("SUBSCRIPTION_ACTIVATED",
                                subs[subscriptionId].price,
                                subs[subscriptionId].plan, "PENDING", Null, Null)),
                 "COMPLETED")],
        subs |-> subs]
  ELSE [ledger |-> ledger, subs |-> subs]

(* a request of the three that ends with the error response of that
   failure *)
saveError(out, subscriptionId, k) ==
  /\ LedgerRoom(subscriptionId, k)
  /\ ledger' = out.ledger
  /\ subs' = out.subs
  /\ UNCHANGED <<devices, nUsers, users, now, inflight>>

(* the end of the billing cycle: an ACTIVE subscription whose endDate has
   passed becomes EXPIRED.  No file of src sets this status; the
   specification names the transition ACTIVE -> EXPIRED at natural expiry.
   Only the change of the status is modelled. *)
expire(subscriptionId) ==
  /\ subscriptionId \in Ids
  /\ subs[subscriptionId].status = "ACTIVE"
  /\ subs[subscriptionId].endDate <= now
  /\ subs' = [subs EXCEPT ![subscriptionId].status = "EXPIRED"]
  /\ UNCHANGED <<ledger, devices, nUsers, users, now, inflight>>

(* time passes up to the end of the cycle of an ACTIVE subscription *)
Elapse ==
  /\ \E id \in Ids :
       /\ subs[id].status = "ACTIVE"
       /\ subs[id].endDate > now
       /\ now' = subs[id].endDate
  /\ UNCHANGED <<subs, ledger, devices, nUsers, users, inflight>>

----------------------------------------------------------------------------
(* Handlers in flight.  No handler of the admin controller runs in a       *)
(* transaction of the store: between its reads and its writes the other    *)
(* requests run.  A request in flight keeps what it has read.  The         *)
(* device-add flow runs in a transaction, whose reads are of the snapshot  *)
(* at its start and whose insert conflicts with no other insert.           *)

(* the PENDING and QUEUED subscriptions of a device *)
Queue(S, imei) == { i \in DOMAIN S : S[i].imei = imei /\ S[i].status \in QueueStatuses }

(* their positions are exactly 1..N *)
Dense(S, imei) ==
  /\ \A i \in Queue(S, imei) : S[i].queuePosition \in 1..Cardinality(Queue(S, imei))
  /\ \A i, j \in Queue(S, imei) : i # j => S[i].queuePosition # S[j].queuePosition

Request(op, id, user, imei, arg, pos, pc) ==
  [op |-> op, id |-> id, user |-> user, imei |-> imei, arg |-> arg, pos |-> pos,
   pc |-> pc,
   (* the request among those in flight: the first number that is free *)
   rid |-> CHOOSE k \in 1..MaxInflight :
             /\ \A q \in inflight : q.rid # k
             /\ \A j \in 1..(k - 1) : \E q \in inflight : q.rid = j,
   (* what the request found when it began: the queue of its device dense
      when the first of the requests it overlaps began, and the operations
      of the requests on the same device in flight *)
   dense0 |-> IF \E q \in inflight : q.imei = imei
              THEN \A q \in inflight : q.imei = imei => q.dense0
              ELSE Dense(subs, imei),
   overlap |-> { q.op : q \in { x \in inflight : x.imei = imei } }]

(* a request begins: the requests of the same device in flight overlap it *)
Begin(r) ==
  /\ Cardinality(inflight) < MaxInflight
  /\ inflight' = { IF q.imei = r.imei THEN [q EXCEPT !.overlap = @ \cup {r.op}] ELSE q :
                     q \in inflight } \cup {r}

(* approveSubscription up to its last check: findById and the two findOne *)
approveCheck(id, activateNow) ==
  /\ approveCode(id) = 200
  /\ Begin(Request("approve", id, subs[id].user, subs[id].imei, activateNow, NoPos, "save"))
  /\ UNCHANGED <<subs, ledger, devices, nUsers, users, now>>

(* subscription.save() of the paths the handler has set, then
   logTransactionUpdate *)
approveSave(r) ==
  /\ r \in inflight /\ r.op = "approve"
  /\ LedgerRoom(r.id, 1)
  /\ subs' = [subs EXCEPT
       ![r.id].status = IF r.arg THEN "ACTIVE" ELSE "APPROVED",
       ![r.id].startDate = IF r.arg THEN now ELSE @,
       ![r.id].endDate = IF r.arg THEN now + getSubscriptionDuration(subs[r.id].plan)
                                  ELSE @,
       ![r.id].reviewedBy = AdminId]
  /\ ledger' = logTransactionUpdate(ledger, r.id,
       IF r.arg THEN "SUBSCRIPTION_ACTIVATED" ELSE "SUBSCRIPTION_APPROVED",
       IF r.arg THEN "COMPLETED" ELSE "PENDING", AdminId)
  /\ inflight' = inflight \ {r}
  /\ UNCHANGED <<devices, nUsers, users, now>>

(* activateSubscription of the admin controller up to its check *)
activateCheck(id) ==
  /\ activateCode(id) = 200
  /\ Begin(Request("activate", id, subs[id].user, subs[id].imei, TRUE, NoPos, "save"))
  /\ UNCHANGED <<subs, ledger, devices, nUsers, users, now>>

activateSave(r) ==
  /\ r \in inflight /\ r.op = "activate"
  /\ LedgerRoom(r.id, 1)
  /\ subs' = [subs EXCEPT
       ![r.id].status = "ACTIVE", ![r.id].startDate = now,
       ![r.id].endDate = now + getSubscriptionDuration(subs[r.id].plan)]
  /\ ledger' = logTransactionUpdate(ledger, r.id,
       "SUBSCRIPTION_ACTIVATED", "COMPLETED", AdminId)
  /\ inflight' = inflight \ {r}
  /\ UNCHANGED <<devices, nUsers, users, now>>

(* rejectSubscription up to its check of the status: the reason is there,
   findById found the subscription PENDING *)
rejectCheck(id) ==
  /\ rejectCode(id, TRUE) = 200
  /\ Begin(Request("reject", id, subs[id].user, subs[id].imei, TRUE, NoPos, "save"))
  /\ UNCHANGED <<subs, ledger, devices, nUsers, users, now>>

(* subscription.save() of the paths rejectSubscription has set, then
   logTransactionUpdate *)
rejectSave(r) ==
  /\ r \in inflight /\ r.op = "reject"
  /\ LedgerRoom(r.id, 1)
  /\ subs' = [subs EXCEPT ![r.id].status = "CANCELLED",
                          ![r.id].reviewedBy = AdminId]
  /\ ledger' = logTransactionUpdate(ledger, r.id,
       "SUBSCRIPTION_REJECTED", "FAILED", AdminId)
  /\ inflight' = inflight \ {r}
  /\ UNCHANGED <<devices, nUsers, users, now>>

(* updateQueuePosition up to findById: oldPosition is read *)
updateQueuePositionLoad(id, newPosition) ==
  /\ updateQueuePositionCode(id, newPosition) = 200
  /\ newPosition <= Cardinality(Queue(subs, subs[id].imei))
  /\ Begin(Request("updateQueuePosition", id, subs[id].user, subs[id].imei,
                   newPosition, subs[id].queuePosition, "shift"))
  /\ UNCHANGED <<subs, ledger, devices, nUsers, users, now>>

(* its updateMany *)
updateQueuePositionShift(r) ==
  /\ r \in inflight /\ r.op = "updateQueuePosition" /\ r.pc = "shift"
  /\ subs' = shiftQueue(subs, r.id, r.pos, r.arg)
  /\ inflight' = (inflight \ {r}) \cup {[r EXCEPT !.pc = "save"]}
  /\ UNCHANGED <<ledger, devices, nUsers, users, now>>

(* its subscription.save() and logTransactionUpdate *)
updateQueuePositionSave(r) ==
  /\ r \in inflight /\ r.op = "updateQueuePosition" /\ r.pc = "save"
  /\ LedgerRoom(r.id, 1)
  /\ subs' = [subs EXCEPT ![r.id].queuePosition = r.arg]
  /\ ledger' = logTransactionUpdate(ledger, r.id,
       "QUEUE_POSITION_UPDATED", "PENDING", AdminId)
  /\ inflight' = inflight \ {r}
  /\ UNCHANGED <<devices, nUsers, users, now>>

(* addNewDeviceToExisitingUser for a device the user already has, up to
   calculateNextQueuePosition: the transaction has read its queue position *)
addNewDeviceRead(userId, imei, plan) ==
  /\ SubsCount < MaxSubs
  /\ addNewDeviceCode(userId, imei, plan) = 201
  /\ DeviceOf(devices, userId, imei) # {}
  /\ Begin(Request("addDevice", 0, userId, imei, plan,
                   calculateNextQueuePosition(subs, imei), "save"))
  /\ UNCHANGED <<subs, ledger, devices, nUsers, users, now>>

(* the inserts of the transaction and its commit *)
addNewDeviceCommit(r) ==
  /\ r \in inflight /\ r.op = "addDevice"
  /\ subs' = Append(subs, NewSubscription(r.user, r.imei, r.arg, r.pos, Null, Null))
  /\ ledger' = [ledger EXCEPT ![Len(subs) + 1] =
       <<NewTransaction("SUBSCRIPTION_CREATED", getSubscriptionPrice(r.arg),
                        r.arg, "PENDING", Null, Null)>>]
  /\ inflight' = inflight \ {r}
  /\ UNCHANGED <<devices, nUsers, users, now>>

(* approveSubscription up to the end of logTransactionUpdate: the state
   change is in the store and the email is still to be sent *)
approveCommitted(id, activateNow) ==
  /\ approveCode(id) = 200
  /\ LedgerRoom(id, 1)
  /\ subs' = approveOutcome(id, activateNow).subs
  /\ ledger' = approveOutcome(id, activateNow).ledger
  /\ Begin(Request("approveNotify", id, subs[id].user, subs[id].imei, activateNow,
                   NoPos, "notify"))
  /\ UNCHANGED <<devices, nUsers, users, now>>

(* rejectSubscription up to the end of logTransactionUpdate *)
rejectCommitted(id) ==
  /\ rejectCode(id, TRUE) = 200
  /\ LedgerRoom(id, 1)
  /\ subs' = rejectOutcome(id, TRUE).subs
  /\ ledger' = rejectOutcome(id, TRUE).ledger
  /\ Begin(Request("rejectNotify", id, subs[id].user, subs[id].imei, TRUE,
                   NoPos, "notify"))
  /\ UNCHANGED <<devices, nUsers, users, now>>

(* addNewDeviceToExisitingUser up to commitTransaction *)
addNewDeviceCommitted(userId, imei, plan) ==
  /\ SubsCount < MaxSubs
  /\ addNewDeviceCode(userId, imei, plan) = 201
  /\ devices' = addNewDeviceOutcome(userId, imei, plan).devices
  /\ subs' = addNewDeviceOutcome(userId, imei, plan).subs
  /\ ledger' = addNewDeviceOutcome(userId, imei, plan).ledger
  /\ Begin(Request("addDeviceNotify", Len(subs) + 1, userId, imei, plan,
                   NoPos, "notify"))
  /\ UNCHANGED <<nUsers, users, now>>

(* a notifier whose failure is answered with an error and takes the
   review back *)
notifyOutcomeEscalated(r, sent) ==
  IF sent
  THEN [subs |-> subs, ledger |-> ledger,
        code |-> IF r.op = "addDeviceNotify" THEN 201 ELSE 200]
  ELSE [subs |-> [subs EXCEPT ![r.id].status = "PENDING"], ledger |-> ledger,
        code |-> 500]

(* the email of the handler in its own try and catch, then the response:
   sent tells whether the notifier succeeded *)
notifyOutcome(r, sent) ==
  [subs |-> subs, ledger |-> ledger,
   code |-> IF r.op = "addDeviceNotify" THEN 201 ELSE 200]

notify(r, sent) ==
  /\ r \in inflight /\ r.pc = "notify"
  /\ subs' = notifyOutcome(r, sent).subs
  /\ ledger' = notifyOutcome(r, sent).ledger
  /\ inflight' = inflight \ {r}
  /\ UNCHANGED <<devices, nUsers, users, now>>

(* the OTP activation up to speakeasy.totp.verify: the subscription and
   the device are read in the session of the handler and the code is
   valid *)
activateOtpCheck(userId, subscriptionId, imei) ==
  /\ activateOtpCode(userId, subscriptionId, imei, TRUE) = 200
  /\ Begin(Request("activateOtp", subscriptionId, userId, imei, TRUE, NoPos, "save"))
  /\ UNCHANGED <<subs, ledger, devices, nUsers, users, now>>

(* its two findByIdAndUpdate, which name no session, and its response 200 *)
activateOtpSave(r) ==
  /\ r \in inflight /\ r.op = "activateOtp"
  /\ subs' = [subs EXCEPT
       ![r.id].status = "ACTIVE", ![r.id].startDate = now,
       ![r.id].endDate = now + SUBSCRIPTION_TYPES(NoSubscriptionType)]
  /\ devices' = { IF d \in DeviceOf(devices, r.user, r.imei)
                  THEN [d EXCEPT !.isOnboarded = TRUE] ELSE d : d \in devices }
  /\ inflight' = inflight \ {r}
  /\ UNCHANGED <<ledger, nUsers, users, now>>

----------------------------------------------------------------------------
(* Specifications                                                          *)

Creation ==
  \/ \E imei \in Imeis, plan \in PlanInputs : register(imei, plan)
  \/ \E userId \in UserIds, imei \in Imeis, plan \in PlanInputs :
       addNewDeviceToExisitingUser(userId, imei, plan)

Review ==
  \/ \E id \in SubIds, activateNow \in BOOLEAN : approveSubscription(id, activateNow)
  \/ \E id \in SubIds, reason \in BOOLEAN : rejectSubscription(id, reason)
  \/ \E id \in SubIds : activateSubscription(id)
  \/ \E r \in BulkRequests : \E early \in BulkReads(r.subscriptionIds) :
       bulkUpdateSubscriptions(r.subscriptionIds, r.action, r.activateNow, r.reason, early)

Queueing ==
  \/ \E id \in SubIds : moveToQueue(id)
  \/ \E userId \in UserIds, id \in SubIds, imei \in Imeis, verified \in BOOLEAN :
       activateSubscriptionOtp(userId, id, imei, verified)

SelfService ==
  \/ \E userId \in UserIds, id \in SubIds, immediate \in BOOLEAN :
       cancelSubscription(userId, id, immediate)
  \/ \E userId \in UserIds, id \in SubIds : renewSubscription(userId, id)

PlanChange ==
  \/ \E userId \in UserIds, id \in SubIds, newPlan \in PlanInputs :
       upgradeSubscription(userId, id, newPlan)
  \/ \E userId \in UserIds, id \in SubIds, newPlan \in PlanInputs :
       downgradeSubscription(userId, id, newPlan)

QueueOrder ==
  \/ \E id \in SubIds, newPosition \in 0..(MaxSubs + 1) :
       updateQueuePosition(id, newPosition)
  \/ \E imei \in Imeis : reorderDeviceQueue(imei)

(* the life cycle of the subscriptions under review and self-service, one
   request at a time *)
Next == Tick \/ Creation \/ Review \/ SelfService

Spec == Init /\ [][Next]_vars

(* the changes of plan of the subscriptions an admin has approved and
   activated *)
NextU ==
  \/ Creation
  \/ \E id \in SubIds : approveSubscription(id, TRUE)
  \/ PlanChange

SpecU == Init /\ [][NextU]_vars

(* the scenario of a subscription that is approved, then activated, then
   cancelled at once *)
NextS ==
  \/ Tick
  \/ Creation
  \/ \E id \in SubIds : approveSubscription(id, FALSE)
  \/ \E id \in SubIds : activateSubscription(id)
  \/ \E userId \in UserIds, id \in SubIds : cancelSubscription(userId, id, TRUE)

SpecS == Init /\ [][NextS]_vars

(* the queues of the devices: the handlers that create, review, queue and
   reorder, at one time of the clock *)
NextQ == Creation \/ Review \/ Queueing \/ QueueOrder

SpecQ == Init /\ [][NextQ]_vars

ConcurrentReview ==
  \/ \E id \in SubIds, activateNow \in BOOLEAN : approveCheck(id, activateNow)
  \/ \E r \in inflight : approveSave(r)
  \/ \E id \in SubIds : activateCheck(id)
  \/ \E r \in inflight : activateSave(r)

ConcurrentQueue ==
  \/ \E id \in SubIds, newPosition \in 1..MaxSubs : updateQueuePositionLoad(id, newPosition)
  \/ \E r \in inflight : updateQueuePositionShift(r)
  \/ \E r \in inflight : updateQueuePositionSave(r)
  \/ \E userId \in UserIds, imei \in Imeis, plan \in PlanInputs :
       addNewDeviceRead(userId, imei, plan)
  \/ \E r \in inflight : addNewDeviceCommit(r)

(* approvals and activations that overlap *)
NextC == Creation \/ ConcurrentReview

SpecC == Init /\ [][NextC]_vars

(* review decisions that overlap: approvals and rejections in steps, and
   the bulk operation with its reads in either order *)
ConcurrentDecision ==
  \/ \E id \in SubIds, activateNow \in BOOLEAN : approveCheck(id, activateNow)
  \/ \E r \in inflight : approveSave(r)
  \/ \E id \in SubIds : rejectCheck(id)
  \/ \E r \in inflight : rejectSave(r)
  \/ \E r \in BulkRequests : \E early \in BulkReads(r.subscriptionIds) :
       bulkUpdateSubscriptions(r.subscriptionIds, r.action, r.activateNow, r.reason, early)

NextV == Creation \/ ConcurrentDecision

SpecV == Init /\ [][NextV]_vars

(* the devices: creations, OTP setup and OTP activation *)
NextD ==
  \/ Creation
  \/ Queueing
  \/ \E userId \in UserIds, imei \in Imeis, secret \in 1..NumSecrets :
       setupDeviceOtp(userId, imei, secret)
  \/ \E userId \in UserIds, id \in SubIds, imei \in Imeis :
       activateSubscriptionOtpDeviceError(userId, id, imei)

SpecD == Init /\ [][NextD]_vars

(* the identities a request may name: those of the model and one that no
   registration has made *)
LoginIds == UserIds \cup {MaxUsers + 1}

(* accounts: registration, verification, login, and the reviews with their
   emails *)
NextA ==
  \/ Tick
  \/ Creation
  \/ \E userId \in LoginIds, token \in BOOLEAN, sent \in BOOLEAN :
       verifyEmail(userId, token, sent)
  \/ \E userId \in LoginIds, sent \in BOOLEAN : resendVerificationEmail(userId, sent)
  \/ \E userId \in LoginIds, isMatch \in BOOLEAN : login(userId, isMatch)
  \/ \E userId \in LoginIds : passUser(userId)
  \/ \E userId \in LoginIds : tokenExpired(userId)
  \/ forceVerificationForExistingUsers
  \/ \E id \in SubIds, activateNow \in BOOLEAN : approveCommitted(id, activateNow)
  \/ \E id \in SubIds : rejectCommitted(id)
  \/ \E r \in inflight, sent \in BOOLEAN : notify(r, sent)

SpecA == Init /\ [][NextA]_vars

(* register up to newUser.save(): the identity is in the store and the
   device is still to create.  Identities are numbered in the order of
   their creation, so one registration at a time is between its steps. *)
registerUserSaved(imei, plan) ==
  /\ nUsers < MaxUsers
  /\ plan \in ValidPlans
  /\ ~\E q \in inflight : q.op = "register"
  /\ nUsers' = nUsers + 1
  /\ users' = Append(users, NewUser)
  /\ Begin(Request("register", Null, nUsers + 1, imei, plan, NoPos, "device"))
  /\ UNCHANGED <<subs, ledger, devices, now>>

(* a compensation that deletes the identity alone *)
registerCleanupUserOnly(r) ==
  [nUsers |-> r.user - 1, users |-> SubSeq(users, 1, r.user - 1), devices |-> devices]

(* the compensation of register: User.findByIdAndDelete(newUser._id) and,
   once the device exists, Device.findByIdAndDelete(newDevice._id) *)
registerCleanup(r) ==
  [nUsers |-> r.user - 1, users |-> SubSeq(users, 1, r.user - 1),
   devices |-> { d \in devices : ~(d.user = r.user /\ d.imei = r.imei) }]

(* newDevice.save(): ok tells whether the store takes the write; the catch
   deletes the identity and throws 500 *)
registerDeviceStep(r, ok) ==
  /\ r \in inflight /\ r.op = "register" /\ r.pc = "device"
  /\ IF ok /\ ~DeviceSaveFails(devices, r.imei)
     THEN /\ devices' = devices \cup {NewDevice(r.user, r.imei)}
          /\ inflight' = (inflight \ {r}) \cup {[r EXCEPT !.pc = "subscription"]}
          /\ UNCHANGED <<nUsers, users>>
     ELSE /\ nUsers' = registerCleanup(r).nUsers
          /\ users' = registerCleanup(r).users
          /\ devices' = registerCleanup(r).devices
          /\ inflight' = (inflight \ {r}) \cup {[r EXCEPT !.pc = "deviceFailed"]}
  /\ UNCHANGED <<subs, ledger, now>>

(* newSubscription.save(): the catch deletes the identity and the device
   and throws 500; after a success the handler goes on to its email *)
registerSubscriptionStep(r, ok) ==
  /\ r \in inflight /\ r.op = "register" /\ r.pc = "subscription"
  /\ IF ok
     THEN /\ SubsCount < MaxSubs
          /\ subs' = Append(subs,
               NewSubscription(r.user, r.imei, r.arg, NoPos, now,
                               now + getSubscriptionDuration(r.arg)))
          /\ ledger' = Append(ledger, <<>>)
          /\ inflight' = inflight \ {r}
          /\ UNCHANGED <<nUsers, users, devices>>
     ELSE /\ nUsers' = registerCleanup(r).nUsers
          /\ users' = registerCleanup(r).users
          /\ devices' = registerCleanup(r).devices
          /\ inflight' = (inflight \ {r}) \cup {[r EXCEPT !.pc = "subscriptionFailed"]}
          /\ UNCHANGED <<subs, ledger>>
  /\ UNCHANGED now

(* the error handler answers with the 500 of the failed step *)
registerError(r) ==
  /\ r \in inflight /\ r.op = "register"
  /\ r.pc \in {"deviceFailed", "subscriptionFailed"}
  /\ inflight' = inflight \ {r}
  /\ UNCHANGED <<subs, ledger, devices, nUsers, users, now>>

(* registrations step by step, and the reviews of what they created *)
NextG ==
  \/ Tick
  \/ Review
  \/ \E imei \in Imeis, plan \in PlanInputs : registerUserSaved(imei, plan)
  \/ \E r \in inflight, ok \in BOOLEAN : registerDeviceStep(r, ok)
  \/ \E r \in inflight, ok \in BOOLEAN : registerSubscriptionStep(r, ok)
  \/ \E r \in inflight : registerError(r)

SpecG == Init /\ [][NextG]_vars

(* reviews and creations with their notifications *)
NextN ==
  \/ Creation
  \/ \E id \in SubIds, activateNow \in BOOLEAN : approveCommitted(id, activateNow)
  \/ \E id \in SubIds : rejectCommitted(id)
  \/ \E userId \in UserIds, imei \in Imeis, plan \in PlanInputs :
       addNewDeviceCommitted(userId, imei, plan)
  \/ \E r \in inflight, sent \in BOOLEAN : notify(r, sent)

SpecN == Init /\ [][NextN]_vars

(* upgrades, cancellations and renewals whose save of the subscription
   fails *)
NextF ==
  \/ Elapse
  \/ Creation
  \/ \E id \in SubIds : approveSubscription(id, TRUE)
  \/ \E id \in SubIds : expire(id)
  \/ \E userId \in UserIds, id \in SubIds, newPlan \in PlanInputs :
       saveError(upgradeSaveErrorOutcome(userId, id, newPlan), id, 1)
  \/ \E userId \in UserIds, id \in SubIds :
       saveError(cancelSaveErrorOutcome(userId, id), id, 1)
  \/ \E userId \in UserIds, id \in SubIds :
       saveError(renewSaveErrorOutcome(userId, id), id, 2)

SpecF == Init /\ [][NextF]_vars

(* the dates of the subscriptions: activation, upgrade, cancellation at
   once, expiry and renewal as time passes *)
NextE ==
  \/ Tick
  \/ Elapse
  \/ Creation
  \/ \E id \in SubIds, activateNow \in BOOLEAN : approveSubscription(id, activateNow)
  \/ \E id \in SubIds : activateSubscription(id)
  \/ \E userId \in UserIds, id \in SubIds, newPlan \in PlanInputs :
       upgradeSubscription(userId, id, newPlan)
  \/ \E userId \in UserIds, id \in SubIds : cancelSubscription(userId, id, TRUE)
  \/ \E id \in SubIds : expire(id)
  \/ \E userId \in UserIds, id \in SubIds : renewSubscription(userId, id)

SpecE == Init /\ [][NextE]_vars

(* addNewDeviceToExisitingUser as the queues grow past nine entries *)
addNewDeviceLongQueue(userId, imei, plan) ==
  /\ Len(subs) < MaxQueue
  /\ addNewDeviceCode(userId, imei, plan) = 201
  /\ devices' = addNewDeviceOutcome(userId, imei, plan).devices
  /\ subs' = addNewDeviceOutcome(userId, imei, plan).subs
  /\ ledger' = addNewDeviceOutcome(userId, imei, plan).ledger
  /\ UNCHANGED <<nUsers, users, now, inflight>>

(* long queues: a registration and the device-adds that follow it *)
NextP ==
  \/ \E imei \in Imeis : register(imei, validSubscriptionTypes[1])
  \/ \E userId \in UserIds, imei \in Imeis :
       addNewDeviceLongQueue(userId, imei, validSubscriptionTypes[1])

SpecP == Init /\ [][NextP]_vars

(* a subscription document as reorderDeviceQueue may find it: of any
   device, in or out of the queue, with any priority, and with no position
   or with one left over from a longer queue *)
QueueInput(imei, status, priority, queuePosition) ==
  [NewSubscription(1, imei, validSubscriptionTypes[1], queuePosition, Null, Null)
     EXCEPT !.status = status, !.priority = priority,
            !.reviewedBy = IF status = "CANCELLED" THEN AdminId ELSE Null]

QueueInputs ==
  { QueueInput(imei, status, priority, queuePosition) :
      imei \in Imeis, status \in QueueStatuses \cup {"CANCELLED"},
      priority \in 0..MaxPriority, queuePosition \in {NoPos, MaxSubs + 1} }

(* the collections reorderDeviceQueue is applied to *)
InitO ==
  /\ subs \in UNION { [1..n -> QueueInputs] : n \in 0..MaxSubs }
  /\ ledger = [i \in SubIds |-> <<>>]
  /\ devices = { NewDevice(1, subs[i].imei) : i \in DOMAIN subs }
  /\ nUsers = 1
  /\ users = <<NewUser>>
  /\ now = 1
  /\ inflight = {}

NextO == \E imei \in Imeis : reorderDeviceQueue(imei)

SpecO == InitO /\ [][NextO]_vars

(* cycles of activation, deferred cancellation, expiry and renewal *)
NextR ==
  \/ Tick
  \/ Elapse
  \/ Creation
  \/ \E id \in SubIds : approveSubscription(id, TRUE)
  \/ \E userId \in UserIds, id \in SubIds : cancelSubscription(userId, id, FALSE)
  \/ \E id \in SubIds : expire(id)
  \/ \E userId \in UserIds, id \in SubIds : renewSubscription(userId, id)

SpecR == Init /\ [][NextR]_vars

(* the expiry of a subscription whose cycle has ended is not put off for
   ever *)
SpecRFair == SpecR /\ \A id \in SubIds : WF_vars(expire(id))

ConcurrentOtp ==
  \/ \E userId \in UserIds, id \in SubIds, imei \in Imeis :
       activateOtpCheck(userId, id, imei)
  \/ \E r \in inflight : activateOtpSave(r)

(* OTP activations of queued subscriptions that overlap, as time passes *)
NextCO ==
  \/ Tick
  \/ Creation
  \/ \E id \in SubIds : moveToQueue(id)
  \/ ConcurrentOtp

SpecCO == Init /\ [][NextCO]_vars

(* creations and reorderings of the queues that overlap *)
NextCQ == Creation \/ ConcurrentQueue

SpecCQ == Init /\ [][NextCQ]_vars

----------------------------------------------------------------------------
(* Claims                                                                  *)

(* C1: at every reachable state and for every IMEI, the queue positions of
   the PENDING and QUEUED subscriptions of that IMEI are exactly 1..N, N
   their number, with no duplicate and no gap. *)
C1_QueuePositionsDense == \A imei \in Imeis : Dense(subs, imei)

(* C2: at every reachable state no two ACTIVE subscriptions belong to the
   same identity and no two to the same IMEI. *)
C2_OneActive ==
  \A i, j \in Ids :
    (i # j /\ subs[i].status = "ACTIVE" /\ subs[j].status = "ACTIVE")
      => (subs[i].user # subs[j].user /\ subs[i].imei # subs[j].imei)

(* C3: of approvals with activateNow and admin activations that overlap on
   subscriptions sharing an identity or an IMEI, a request ends with its
   subscription ACTIVE only when no other subscription of that identity or
   that IMEI is ACTIVE at that moment. *)
C3_ConcurrentActivationExclusive ==
  [][\A r \in inflight :
       (r.op \in {"approve", "activate"} /\ r \notin inflight'
        /\ subs'[r.id].status = "ACTIVE")
         => ~(existingActive(subs', r.id) \/ deviceActive(subs', r.id))]_vars

(* C4: when the last of several overlapping queue-mutating requests of
   one kind on an IMEI ends (updateQueuePosition calls, or creations that
   computed the next position), and the queue of that IMEI was dense when
   the first of them began, the positions of the queue have no duplicate
   and no missing value. *)
C4_InterleavedQueueDense ==
  [][\A r \in inflight :
       (r.op \in {"updateQueuePosition", "addDevice"}
        /\ r.overlap = {r.op} /\ r.dense0
        /\ ~\E q \in inflight' : q.imei = r.imei)
         => Dense(subs', r.imei)]_vars

(* C5: every step that creates a subscription or changes its status adds
   an entry to the ledger of that subscription. *)
C5_StatusChangeLogged ==
  [][\A id \in DOMAIN subs' :
       (id \notin DOMAIN subs \/ subs'[id].status # subs[id].status)
         => Len(ledger'[id]) > Len(ledger[id])]_vars

(* C6: an entry of the ledger, once written, stays as it was written: no
   step changes any field of it or removes it. *)
C6_LedgerWriteOnce ==
  [][\A id \in SubIds : \A k \in 1..Len(ledger[id]) :
       /\ Len(ledger'[id]) >= k
       /\ ledger'[id][k] = ledger[id][k]]_vars

LegalTransitions ==
  { <<"PENDING", "APPROVED">>, <<"PENDING", "QUEUED">>, <<"PENDING", "CANCELLED">>,
    <<"APPROVED", "ACTIVE">>, <<"QUEUED", "ACTIVE">>, <<"ACTIVE", "CANCELLED">>,
    <<"ACTIVE", "EXPIRED">>, <<"EXPIRED", "ACTIVE">> }

(* C7: every change of the status of a subscription is one of the legal
   transitions PENDING->APPROVED, PENDING->QUEUED, PENDING->CANCELLED,
   APPROVED->ACTIVE, QUEUED->ACTIVE, ACTIVE->CANCELLED, ACTIVE->EXPIRED,
   EXPIRED->ACTIVE. *)
C7_LegalTransitionsOnly ==
  [][\A id \in Ids :
       subs'[id].status # subs[id].status
         => <<subs[id].status, subs'[id].status>> \in LegalTransitions]_vars

(* C8: a subscription whose status is CANCELLED keeps that status under
   every operation. *)
C8_CancelledIsTerminal ==
  [][\A id \in Ids :
       subs[id].status = "CANCELLED" => subs'[id].status = "CANCELLED"]_vars

(* the chain holds, in the order of creation, a SUBSCRIPTION_CREATED entry,
   then a SUBSCRIPTION_APPROVED or SUBSCRIPTION_ACTIVATED entry, then a
   SUBSCRIPTION_CANCELLED entry *)
CreatedReviewedCancelled(chain) ==
  /\ Len(chain) >= 3
  /\ \E a, b, c \in 1..Len(chain) :
       /\ a < b /\ b < c
       /\ chain[a].type = "SUBSCRIPTION_CREATED"
       /\ chain[b].type \in {"SUBSCRIPTION_APPROVED", "SUBSCRIPTION_ACTIVATED"}
       /\ chain[c].type = "SUBSCRIPTION_CANCELLED"

(* C9: when a subscription that was created PENDING, approved without
   activateNow and activated by the admin is cancelled at once, it ends
   CANCELLED with endDate the time of the cancellation, and its ledger
   holds at least three entries: CREATED, then APPROVED and/or ACTIVATED,
   then CANCELLED. *)
C9_ApproveActivateCancel ==
  [][\A id \in Ids :
       (subs[id].status = "ACTIVE" /\ subs'[id].status = "CANCELLED")
         => /\ subs'[id].endDate = now
            /\ CreatedReviewedCancelled(ledger'[id])]_vars

(* C10: in every reachable state and for every request, approve succeeds
   only on a PENDING subscription; on success the subscription is ACTIVE
   with startDate = now and endDate = now + the duration of its plan when
   activateNow, APPROVED otherwise, and one entry more is in its ledger; on
   any other status it is refused (400), and so it is when the identity or
   the IMEI holds another ACTIVE subscription, with the subscriptions and
   the ledger as they were. *)
C10_ApproveContract ==
  \A id \in Ids, activateNow \in BOOLEAN :
    LET out == approveOutcome(id, activateNow)
    IN /\ approveCode(id) = 200 => subs[id].status = "PENDING"
       /\ approveCode(id) = 200 =>
            /\ out.subs[id].status = IF activateNow THEN "ACTIVE" ELSE "APPROVED"
            /\ activateNow =>
                 /\ out.subs[id].startDate = now
                 /\ out.subs[id].endDate =
                      now + getSubscriptionDuration(subs[id].plan)
            /\ Len(out.ledger[id]) = Len(ledger[id]) + 1
       /\ (\/ subs[id].status # "PENDING"
           \/ existingActive(subs, id)
           \/ deviceActive(subs, id)) =>
            /\ approveCode(id) = 400
            /\ out.subs = subs
            /\ out.ledger = ledger

(* C11: in every reachable state and for every request, reject succeeds
   only on a PENDING subscription and only with a reason, and then the
   subscription is CANCELLED; without a reason, on a subscription that is
   not PENDING or on no subscription it is refused with the subscriptions
   and the ledger as they were. *)
C11_RejectContract ==
  \A id \in SubIds, reason \in BOOLEAN :
    LET out == rejectOutcome(id, reason)
    IN /\ rejectCode(id, reason) = 200 =>
            /\ id \in Ids /\ reason /\ subs[id].status = "PENDING"
            /\ out.subs[id].status = "CANCELLED"
       /\ (~reason \/ id \notin Ids \/ subs[id].status # "PENDING") =>
            /\ rejectCode(id, reason) \in {400, 404}
            /\ out.subs = subs
            /\ out.ledger = ledger

(* a subscription that was never activated has been rejected, the
   rejection is in its ledger, and another one is still open to a reject *)
C11_Witness ==
  \E id, j \in Ids :
    /\ subs[id].status = "CANCELLED" /\ subs[id].startDate = Null
    /\ subs[id].reviewedBy = AdminId
    /\ ledger[id] # <<>>
    /\ ledger[id][Len(ledger[id])].type = "SUBSCRIPTION_REJECTED"
    /\ rejectCode(j, TRUE) = 200 /\ rejectCode(j, FALSE) = 400

(* the days of the plans of the specification *)
PlanDays(plan) ==
  CASE plan \in {"mobile-v4-basic", "mobile-v5-basic"} -> 30
    [] plan \in {"mobile-v4-premium", "mobile-v5-premium", "full-suite-basic"} -> 60
    [] plan \in {"mobile-v4-enterprise", "full-suite-premium"} -> 90

(* C12: in every reachable state and for every request, the admin's
   activate succeeds only on an APPROVED subscription and only when no
   other subscription of its identity or its IMEI is ACTIVE; then the
   subscription is ACTIVE with endDate = now + the days of its plan;
   otherwise it is refused with the subscriptions and the ledger as they
   were. *)
C12_ActivateContract ==
  \A id \in SubIds :
    LET out == activateOutcome(id)
        ok == /\ id \in Ids
              /\ subs[id].status = "APPROVED"
              /\ ~existingActive(subs, id)
              /\ ~deviceActive(subs, id)
    IN /\ activateCode(id) = 200 <=> ok
       /\ ok => /\ out.subs[id].status = "ACTIVE"
                /\ out.subs[id].endDate = now + PlanDays(subs[id].plan)
       /\ ~ok => out.subs = subs /\ out.ledger = ledger

(* one subscription has been approved and then activated by the admin, and
   an APPROVED one of the same identity is refused for the conflict *)
C12_Witness ==
  \E id, j \in Ids :
    /\ subs[id].status = "ACTIVE" /\ subs[id].startDate = now
    /\ Len(ledger[id]) >= 3
    /\ ledger[id][Len(ledger[id]) - 1].type = "SUBSCRIPTION_APPROVED"
    /\ ledger[id][Len(ledger[id])].type = "SUBSCRIPTION_ACTIVATED"
    /\ subs[j].status = "APPROVED" /\ subs[j].user = subs[id].user
    /\ activateCode(j) = 400

(* C13: in every reachable state and for every request, the OTP activation
   succeeds only when the subscription exists, belongs to the caller, is
   QUEUED, has the IMEI of the request, the caller has a device of that
   IMEI and the code validates; then the subscription is ACTIVE and that
   device is onboarded; a failing precondition answers 404 (no
   subscription, no device), 403 (owner) or 400 (status, IMEI, code) and
   leaves the subscriptions and the devices as they were. *)
C13_OtpActivationContract ==
  \A userId \in UserIds, id \in SubIds, imei \in Imeis, verified \in BOOLEAN :
    LET out == activateOtpOutcome(userId, id, imei, verified)
        code == activateOtpCode(userId, id, imei, verified)
        own == id \in Ids /\ subs[id].user = userId
        queued == own /\ subs[id].status = "QUEUED" /\ subs[id].imei = imei
        ok == queued /\ DeviceOf(devices, userId, imei) # {} /\ verified
    IN /\ code = 200 <=> ok
       /\ id \notin Ids => code = 404
       /\ (id \in Ids /\ ~own) => code = 403
       /\ (own /\ ~queued) => code = 400
       /\ (queued /\ DeviceOf(devices, userId, imei) = {}) => code = 404
       /\ (queued /\ DeviceOf(devices, userId, imei) # {} /\ ~verified) => code = 400
       /\ ok => /\ out.subs[id].status = "ACTIVE"
                /\ DeviceOf(out.devices, userId, imei) # {}
                /\ \A d \in DeviceOf(out.devices, userId, imei) : d.isOnboarded
       /\ ~ok => out.subs = subs /\ out.devices = devices

(* a queued subscription has been activated with the code of its device,
   which is onboarded, and a request of another identity for it is
   refused *)
C13_Witness ==
  \E id \in Ids, other \in UserIds :
    /\ subs[id].status = "ACTIVE" /\ subs[id].queuePosition # NoPos
    /\ \E d \in DeviceOf(devices, subs[id].user, subs[id].imei) : d.isOnboarded
    /\ other # subs[id].user
    /\ activateOtpCode(other, id, subs[id].imei, TRUE) = 403

(* C14: an OTP activation that ends with success on a subscription that an
   earlier activation has already made ACTIVE changes neither its
   startDate nor its endDate. *)
C14_OtpActivatesOnce ==
  [][\A r \in inflight :
       (/\ r.op = "activateOtp"
        /\ ~\E q \in inflight' : q.rid = r.rid
        /\ subs[r.id].status = "ACTIVE")
         => /\ subs'[r.id].startDate = subs[r.id].startDate
            /\ subs'[r.id].endDate = subs[r.id].endDate]_vars

(* C15: an upgrade of an ACTIVE subscription of the caller to a plan whose
   price is at most the price of the current plan is refused with 400 and
   changes neither the subscriptions nor the ledger. *)
C15_UpgradeNeedsHigherPrice ==
  \A userId \in UserIds, id \in SubIds, newPlan \in PlanInputs :
    (/\ findOwn(userId, id, "ACTIVE")
     /\ getSubscriptionPrice(newPlan) <= getSubscriptionPrice(subs[id].plan))
      => /\ upgradeCode(userId, id, newPlan) = 400
         /\ upgradeOutcome(userId, id, newPlan).subs = subs
         /\ upgradeOutcome(userId, id, newPlan).ledger = ledger

(* an upgraded ACTIVE subscription for which a cheaper plan and its own plan
   are both refused *)
C15_Witness ==
  \E id \in Ids, newPlan \in ValidPlans :
    /\ subs[id].status = "ACTIVE"
    /\ \E k \in 1..Len(ledger[id]) : ledger[id][k].type = "SUBSCRIPTION_UPGRADED"
    /\ getSubscriptionPrice(newPlan) < getSubscriptionPrice(subs[id].plan)
    /\ upgradeCode(subs[id].user, id, newPlan) = 400
    /\ upgradeCode(subs[id].user, id, subs[id].plan) = 400

(* C16: a downgrade of an ACTIVE subscription of the caller leaves its
   status, plan, price, startDate and endDate as they are, stores a pending
   plan change effective at its endDate and appends one ledger entry,
   COMPLETED with amount 0; on a subscription that is not ACTIVE it is
   refused and changes nothing. *)
C16_DowngradeContract ==
  \A userId \in UserIds, id \in SubIds, newPlan \in PlanInputs :
    LET out == downgradeOutcome(userId, id, newPlan)
        code == downgradeCode(userId, id)
    IN /\ findOwn(userId, id, "ACTIVE") =>
            /\ code = 200
            /\ \A p \in {"status", "plan", "price", "startDate", "endDate"} :
                 out.subs[id][p] = subs[id][p]
            /\ "pendingPlanChange" \in DOMAIN out.subs[id]
            /\ out.subs[id].pendingPlanChange.effectiveDate = subs[id].endDate
            /\ Len(out.ledger[id]) = Len(ledger[id]) + 1
            /\ out.ledger[id][Len(out.ledger[id])].status = "COMPLETED"
            /\ out.ledger[id][Len(out.ledger[id])].amount = 0
       /\ (id \in Ids /\ subs[id].status # "ACTIVE") =>
            /\ code # 200
            /\ out.subs = subs
            /\ out.ledger = ledger

(* C17: a cancellation of an ACTIVE subscription of the caller with
   immediate = true sets its status to CANCELLED and its endDate to the
   current time; with immediate = false it stores cancelledAt and
   cancellationReason and leaves status and endDate as they are; on a
   subscription that is not ACTIVE it is refused and changes neither the
   subscriptions nor the ledger. *)
C17_CancelContract ==
  \A userId \in UserIds, id \in SubIds :
    LET now_ == cancelOutcome(userId, id, TRUE)
        later == cancelOutcome(userId, id, FALSE)
    IN /\ findOwn(userId, id, "ACTIVE") =>
            /\ cancelCode(userId, id) = 200
            /\ now_.subs[id].status = "CANCELLED"
            /\ now_.subs[id].endDate = now
            /\ later.subs[id].status = "ACTIVE"
            /\ later.subs[id].endDate = subs[id].endDate
            /\ {"cancelledAt", "cancellationReason"} \subseteq DOMAIN later.subs[id]
            /\ later.subs[id].cancelledAt = now
       /\ (id \in Ids /\ subs[id].status # "ACTIVE") =>
            /\ cancelCode(userId, id) # 200
            /\ \A immediate \in BOOLEAN :
                 /\ cancelOutcome(userId, id, immediate).subs = subs
                 /\ cancelOutcome(userId, id, immediate).ledger = ledger

(* C18: a renewal succeeds exactly on an EXPIRED subscription of the
   caller; it sets status ACTIVE, startDate = now and endDate = now +
   the duration of the plan, leaves no cancelledAt and no
   cancellationReason on the subscription, and on a subscription in any
   other status it is refused and changes nothing. *)
C18_RenewContract ==
  \A userId \in UserIds, id \in SubIds :
    LET out == renewOutcome(userId, id)
        code == renewCode(userId, id)
        ok == id \in Ids /\ subs[id].user = userId /\ subs[id].status = "EXPIRED"
    IN /\ code = 200 <=> ok
       /\ ok => /\ out.subs[id].status = "ACTIVE"
                /\ out.subs[id].startDate = now
                /\ out.subs[id].endDate = now + PlanDays(subs[id].plan)
                /\ \A p \in {"cancelledAt", "cancellationReason"} :
                     p \in DOMAIN out.subs[id] => out.subs[id][p] = Null
                /\ \A j \in Ids \ {id} : out.subs[j] = subs[j]
       /\ ~ok => out.subs = subs /\ out.ledger = ledger

(* a subscription that expired and was renewed a cycle later, beside one
   that was not *)
C18_Witness ==
  \E id \in Ids :
    /\ subs[id].status = "ACTIVE"
    /\ subs[id].startDate = now
    /\ now > MaxTime
    /\ subs[id].endDate = now + PlanDays(subs[id].plan)
    /\ \E k \in 1..Len(ledger[id]) : ledger[id][k].type = "SUBSCRIPTION_ACTIVATED"
                                       /\ ledger[id][k].status = "COMPLETED"
    /\ renewCode(subs[id].user, id) = 404

(* a subscription whose ledger holds a cancellation and which is not
   CANCELLED: its cancellation was deferred to the end of the cycle *)
DeferredCancelled(id) ==
  /\ id \in Ids
  /\ subs[id].status # "CANCELLED"
  /\ \E k \in 1..Len(ledger[id]) : ledger[id][k].type = "SUBSCRIPTION_CANCELLED"

(* C19: an ACTIVE subscription whose cancellation was deferred stays ACTIVE,
   with its endDate, as long as its endDate has not passed, and once its
   endDate has passed it is eventually EXPIRED. *)
C19_DeferredCancelExpires ==
  /\ [][\A id \in Ids :
          (/\ subs[id].status = "ACTIVE"
           /\ now < subs[id].endDate
           /\ \E k \in 1..Len(ledger'[id]) :
                ledger'[id][k].type = "SUBSCRIPTION_CANCELLED")
            => /\ subs'[id].status = "ACTIVE"
               /\ subs'[id].endDate = subs[id].endDate]_vars
  /\ \A id \in SubIds :
       (DeferredCancelled(id) /\ subs[id].status = "ACTIVE" /\ subs[id].endDate <= now)
         ~> (id \in Ids /\ subs[id].status = "EXPIRED")

(* a subscription that was cancelled at the end of its cycle and has expired *)
C19_Witness ==
  \E id \in Ids : DeferredCancelled(id) /\ subs[id].status = "EXPIRED"

(* C20: a bulk approve or reject that is accepted returns one result for
   each element of its list, in the order of the list; an id whose
   subscription is PENDING gets success true and is transitioned; an id
   whose subscription is missing or not PENDING gets success false with a
   reason and is left as it was; the subscriptions the list does not name
   are left as they were.  An id that stands twice in the list is judged
   at its first place; at a later place it succeeds only if it was
   PENDING. *)
C20_BulkPerIdResults ==
  \A r \in BulkRequests : \A early \in BulkReads(r.subscriptionIds) :
    LET l == r.subscriptionIds
        out == bulkOutcome(l, r.action, r.activateNow, r.reason, early)
        pending(id) == id \in Ids /\ subs[id].status = "PENDING"
        target == IF r.action = "reject" THEN "CANCELLED"
                  ELSE IF r.activateNow THEN "ACTIVE" ELSE "APPROVED"
    IN bulkCode(l, r.action, r.reason) = 200 =>
         /\ Len(out.results) = Len(l)
         /\ \A i \in DOMAIN l :
              /\ out.results[i].id = l[i]
              /\ out.results[i].success => pending(l[i])
              /\ (\A j \in 1..(i - 1) : l[j] # l[i]) =>
                   (out.results[i].success <=> pending(l[i]))
              /\ ~out.results[i].success => "reason" \in DOMAIN out.results[i]
              /\ pending(l[i]) => out.subs[l[i]].status = target
              /\ (l[i] \in Ids /\ ~pending(l[i])) =>
                   /\ out.subs[l[i]] = subs[l[i]]
                   /\ out.ledger[l[i]] = ledger[l[i]]
         /\ \A id \in Ids : (\A i \in DOMAIN l : l[i] # id) =>
              out.subs[id] = subs[id] /\ out.ledger[id] = ledger[id]

(* a CANCELLED and an APPROVED subscription, of which a bulk approve had
   met the first as not PENDING and the second as PENDING *)
C20_Witness ==
  \E i \in Ids, j \in Ids :
    /\ subs[i].status = "CANCELLED"
    /\ subs[j].status = "APPROVED"
    /\ ledger[j] # <<>>
    /\ ledger[j][Len(ledger[j])].type = "SUBSCRIPTION_APPROVED"
    /\ LET out == bulkOutcome(<<i, j>>, "approve", FALSE, FALSE, <<TRUE, TRUE>>)
       IN ~out.results[1].success /\ ~out.results[2].success

(* C21: for every id, a bulk approve of that id alone has the outcome of
   approveSubscription in the same state, and a bulk reject the outcome of
   rejectSubscription: the same success or failure, the same subscriptions
   and the same ledger. *)
C21_BulkAsSingle ==
  \A id \in SubIds, activateNow \in BOOLEAN :
    LET bulkA == bulkOutcome(<<id>>, "approve", activateNow, FALSE, <<TRUE>>)
        bulkR == bulkOutcome(<<id>>, "reject", FALSE, TRUE, <<TRUE>>)
    IN /\ bulkA.results[1].success <=> approveCode(id) = 200
       /\ bulkA.subs = approveOutcome(id, activateNow).subs
       /\ bulkA.ledger = approveOutcome(id, activateNow).ledger
       /\ bulkR.results[1].success <=> rejectCode(id, TRUE) = 200
       /\ bulkR.subs = rejectOutcome(id, TRUE).subs
       /\ bulkR.ledger = rejectOutcome(id, TRUE).ledger

(* C22: the device-add flow of an existing identity is refused, and leaves
   devices, subscriptions and ledger as they are, when the identity or the
   IMEI already has an ACTIVE subscription, when the plan is none of the
   seven plans, and when the device of the IMEI belongs to another
   identity; otherwise it adds exactly one subscription, PENDING. *)
C22_CreateContract ==
  \A userId \in 1..nUsers, imei \in Imeis, plan \in PlanInputs :
    LET out == addNewDeviceOutcome(userId, imei, plan)
        code == addNewDeviceCode(userId, imei, plan)
        conflict == \E i \in Ids : /\ subs[i].status = "ACTIVE"
                                  /\ (subs[i].user = userId \/ subs[i].imei = imei)
        owned == \E d \in DeviceOfImei(devices, imei) :
                   d.user # Null /\ d.user # userId
        refused == conflict \/ plan \notin ValidPlans \/ owned
    IN (SubsCount < MaxSubs) =>
         /\ refused => /\ code # 201
                       /\ out.subs = subs
                       /\ out.devices = devices
                       /\ out.ledger = ledger
         /\ ~refused => /\ code = 201
                        /\ Len(out.subs) = Len(subs) + 1
                        /\ SubSeq(out.subs, 1, Len(subs)) = subs
                        /\ out.subs[Len(out.subs)].status = "PENDING"

(* C23: the devices of an IMEI all belong to one identity, and no step
   binds the IMEI of a device that has an owner to another identity. *)
C23_OneOwnerPerImei ==
  /\ [](\A d \in devices, e \in devices : d.imei = e.imei => d.user = e.user)
  /\ [][\A d \in devices : d.user # Null =>
          \A e \in devices' : e.imei = d.imei => e.user = d.user]_vars

(* a device that setupDeviceOtp has reset after its OTP activation, while
   the setup and the device-add of another identity for its IMEI are
   refused *)
C23_Witness ==
  \E d \in devices, other \in 1..nUsers :
    /\ ~d.isOnboarded
    /\ \E i \in Ids : /\ subs[i].user = d.user /\ subs[i].imei = d.imei
                      /\ subs[i].status = "ACTIVE" /\ subs[i].queuePosition # NoPos
    /\ other # d.user
    /\ setupDeviceCode(other, d.imei) = 400
    /\ addNewDeviceCode(other, d.imei, "mobile-v4-basic") = 400

(* C24: an OTP activation that fails at the update of the device, after
   the subscription was loaded and the code verified, leaves the
   subscription and the device as they were. *)
C24_OtpActivationAtomic ==
  \A userId \in UserIds, id \in SubIds, imei \in Imeis :
    LET out == activateOtpDeviceErrorOutcome(userId, id, imei)
    IN /\ out.subs = subs
       /\ out.devices = devices

(* C25: an upgrade, a cancellation or a renewal whose save of the
   subscription fails leaves no entry of its own in the ledger and leaves
   the subscription as it was. *)
C25_LedgerAndSubscriptionTogether ==
  \A userId \in UserIds, id \in SubIds :
    /\ \A newPlan \in PlanInputs :
         /\ upgradeSaveErrorOutcome(userId, id, newPlan).ledger = ledger
         /\ upgradeSaveErrorOutcome(userId, id, newPlan).subs = subs
    /\ cancelSaveErrorOutcome(userId, id).ledger = ledger
    /\ cancelSaveErrorOutcome(userId, id).subs = subs
    /\ renewSaveErrorOutcome(userId, id).ledger = ledger
    /\ renewSaveErrorOutcome(userId, id).subs = subs

(* C26: while an approval, a rejection or a creation has its notification
   still to send, its state change is in the store; and whether the
   notifier then succeeds or fails, the subscriptions and the ledger stay
   as they are and the caller is answered with success. *)
C26_NotifyAfterCommit ==
  \A r \in inflight : r.pc = "notify" =>
    /\ r.id \in Ids
    /\ r.op = "approveNotify" =>
         subs[r.id].status = IF r.arg THEN "ACTIVE" ELSE "APPROVED"
    /\ r.op = "rejectNotify" => subs[r.id].status = "CANCELLED"
    /\ r.op = "addDeviceNotify" =>
         /\ subs[r.id].user = r.user /\ subs[r.id].imei = r.imei
         /\ ledger[r.id] # <<>>
    /\ \A sent \in BOOLEAN :
         /\ notifyOutcome(r, sent).subs = subs
         /\ notifyOutcome(r, sent).ledger = ledger
         /\ notifyOutcome(r, sent).code \in {200, 201}

(* an approval whose notification is still to send, beside a rejection
   that has been answered *)
C26_Witness ==
  \E r \in inflight, j \in Ids :
    /\ r.pc = "notify" /\ r.op = "approveNotify"
    /\ subs[r.id].status = "APPROVED"
    /\ subs[j].status = "CANCELLED"
    /\ ~\E q \in inflight : q.id = j

(* C27: in registration, email verification, resend-verification,
   approve and reject, a request that is answered with success when the
   notifier succeeds is answered with the same success when it fails. *)
C27_NotifierFailureIsNoError ==
  /\ \A imei \in Imeis, plan \in PlanInputs :
       registerMailCode(imei, plan, FALSE) = registerMailCode(imei, plan, TRUE)
  /\ \A userId \in LoginIds, token \in BOOLEAN :
       verifyEmailCode(userId, token, FALSE) = verifyEmailCode(userId, token, TRUE)
  /\ \A userId \in LoginIds :
       resendVerificationCode(userId, FALSE) = resendVerificationCode(userId, TRUE)
  /\ \A r \in inflight : r.pc = "notify" =>
       notifyOutcome(r, FALSE).code = notifyOutcome(r, TRUE).code

(* C28: when a registration has failed at its device step or at its
   subscription step and its error is about to be returned, the store holds
   neither the identity nor a device that this registration created: the
   identity is gone, every device left belongs to an identity of the store,
   and every identity and device has a subscription of its own or a
   registration still going on. *)
C28_RegistrationCompensated ==
  \A r \in inflight : r.pc \in {"deviceFailed", "subscriptionFailed"} =>
    /\ r.user \notin 1..nUsers
    /\ Len(users) = nUsers
    /\ \A d \in devices : d.user # r.user
    /\ \A d \in devices : d.user \in 1..nUsers

(* a registration that failed at its subscription step while the device of
   an earlier identity is in the store *)
C28_Witness ==
  \E r \in inflight :
    /\ r.pc = "subscriptionFailed"
    /\ nUsers >= 1
    /\ \E d \in devices : d.user \in 1..nUsers

(* C29: login answers 200 with tokens exactly for an existing identity
   whose email is verified, whose account is active and whose password
   matches; an existing identity that is unverified or inactive gets 403,
   an unknown identity 401 and a wrong password of a verified and active
   identity 401; and no request that is answered with a token is made for
   an identity whose email is unverified. *)
C29_LoginContract ==
  /\ \A userId \in LoginIds, isMatch \in BOOLEAN :
       LET known == userId \in 1..nUsers
           code == loginCode(userId, isMatch)
       IN /\ code = 200 <=> /\ known
                            /\ users[userId].isEmailVerified
                            /\ users[userId].isActive
                            /\ isMatch
          /\ ~known => code = 401
          /\ known /\ (~users[userId].isEmailVerified \/ ~users[userId].isActive)
               => code = 403
          /\ known /\ users[userId].isEmailVerified /\ users[userId].isActive
               /\ ~isMatch => code = 401
  /\ \A userId \in LoginIds :
       passUserCode(userId) = 200 => users[userId].isEmailVerified

(* C30: at every reachable state the plan of every subscription is a plan
   of the table and its price is the price the table gives for that plan,
   after the creations and after every upgrade and downgrade; the plan is
   the one value of a request the price comes from. *)
C30_PriceFromTable ==
  /\ \A id \in Ids :
       /\ subs[id].plan \in ValidPlans
       /\ subs[id].price = getSubscriptionPrice(subs[id].plan)
  /\ \A userId \in UserIds, id \in SubIds, newPlan \in PlanInputs :
       /\ \A j \in DOMAIN upgradeOutcome(userId, id, newPlan).subs :
            upgradeOutcome(userId, id, newPlan).subs[j].price =
              getSubscriptionPrice(upgradeOutcome(userId, id, newPlan).subs[j].plan)
       /\ \A j \in DOMAIN downgradeOutcome(userId, id, newPlan).subs :
            downgradeOutcome(userId, id, newPlan).subs[j].price =
              getSubscriptionPrice(downgradeOutcome(userId, id, newPlan).subs[j].plan)

(* a subscription that was upgraded and then asked to be downgraded, dearer
   than the plan it was created with *)
C30_Witness ==
  \E id \in Ids :
    /\ \E k \in 1..Len(ledger[id]) : ledger[id][k].type = "SUBSCRIPTION_UPGRADED"
    /\ \E k \in 1..Len(ledger[id]) : ledger[id][k].type = "SUBSCRIPTION_DOWNGRADED"
    /\ subs[id].price = getSubscriptionPrice(subs[id].plan)
    /\ subs[id].price > getSubscriptionPrice(validSubscriptionTypes[1])

(* C31: at every reachable state every subscription whose startDate and
   endDate are both set has endDate >= startDate, after any sequence of
   approvals, activations, upgrades, cancellations at once and renewals. *)
C31_EndNotBeforeStart ==
  \A id \in Ids :
    (subs[id].startDate # Null /\ subs[id].endDate # Null)
      => subs[id].endDate >= subs[id].startDate

(* a subscription cancelled at once on the day of its activation, whose
   endDate is its startDate, beside one that was upgraded *)
C31_Witness ==
  \E id \in Ids, j \in Ids :
    /\ subs[id].status = "CANCELLED"
    /\ subs[id].startDate # Null
    /\ subs[id].endDate = subs[id].startDate
    /\ \E k \in 1..Len(ledger[id]) : ledger[id][k].type = "SUBSCRIPTION_CANCELLED"
    /\ \E k \in 1..Len(ledger[j]) : ledger[j][k].type = "SUBSCRIPTION_UPGRADED"

(* C32: a setupDeviceOtp of an identity for an IMEI that is answered 200
   leaves exactly one Device for that pair, with onboarded = false and with
   the secret the invocation generated, which is not the secret the device
   had; the other devices stay as they are; and at every reachable state no
   pair has two devices, however many invocations came before. *)
C32_SetupIdempotent ==
  /\ \A userId \in UserIds, imei \in Imeis :
       Cardinality(DeviceOf(devices, userId, imei)) <= 1
  /\ \A userId \in 1..nUsers, imei \in Imeis :
       \A secret \in generateSecret(DeviceOf(devices, userId, imei)) :
         LET out == setupDeviceOutcome(userId, imei, secret)
         IN setupDeviceCode(userId, imei) = 200 =>
              /\ Cardinality(DeviceOf(out, userId, imei)) = 1
              /\ \A d \in DeviceOf(out, userId, imei) :
                   /\ ~d.isOnboarded
                   /\ d.totpSecret = secret
                   /\ \A old \in DeviceOf(devices, userId, imei) :
                        d.totpSecret # old.totpSecret
              /\ out \ DeviceOf(out, userId, imei) =
                   devices \ DeviceOf(devices, userId, imei)

(* a device that was created with its subscription and that setupDeviceOtp
   has given a secret since, beside a device of another identity; a further
   invocation is answered 200 *)
C32_Witness ==
  \E d \in devices, other \in devices :
    /\ d.totpSecret # CreationSecret
    /\ ~d.isOnboarded
    /\ \E id \in Ids : subs[id].user = d.user /\ subs[id].imei = d.imei
    /\ other.user # d.user
    /\ setupDeviceCode(d.user, d.imei) = 200
    /\ generateSecret({d}) # {}

(* C33: updateQueuePosition(id, newPosition) on a subscription in the queue
   of its IMEI, whose positions are 1..N, with 1 <= newPosition <= N, is
   answered 200; a subscription of that IMEI's queue at a position in
   [newPosition, oldPosition) moves up by one when newPosition <
   oldPosition, one at a position in (oldPosition, newPosition] moves down
   by one when newPosition > oldPosition, the others of the queue keep
   their position, the target gets newPosition, and the positions of the
   queue are again exactly 1..N. *)
C33_MoveKeepsPermutation ==
  \A id \in Ids :
    LET imei == subs[id].imei
        N == Cardinality(Queue(subs, imei))
        oldPosition == subs[id].queuePosition
    IN (id \in Queue(subs, imei) /\ Dense(subs, imei)) =>
         \A newPosition \in 1..N :
           LET out == updateQueuePositionOutcome(id, newPosition).subs
           IN /\ updateQueuePositionCode(id, newPosition) = 200
              /\ out[id].queuePosition = newPosition
              /\ \A j \in Queue(subs, imei) \ {id} :
                   out[j].queuePosition =
                     IF /\ newPosition < oldPosition
                        /\ newPosition <= subs[j].queuePosition
                        /\ subs[j].queuePosition < oldPosition
                     THEN subs[j].queuePosition + 1
                     ELSE IF /\ newPosition > oldPosition
                             /\ oldPosition < subs[j].queuePosition
                             /\ subs[j].queuePosition <= newPosition
                     THEN subs[j].queuePosition - 1
                     ELSE subs[j].queuePosition
              /\ Dense(out, imei)

(* C34: getNextQueuePosition(imei) is 1 when the IMEI has no PENDING or
   QUEUED subscription (or none with a position), and otherwise the largest
   number among the positions of its PENDING and QUEUED subscriptions plus
   1, whatever the length of the queue. *)
C34_NextIsMaxPlusOne ==
  \A imei \in Imeis :
    LET positions == { subs[i].queuePosition : i \in Queue(subs, imei) } \ {NoPos}
    IN getNextQueuePosition(subs, imei) =
         IF positions = {} THEN 1
         ELSE (CHOOSE m \in positions : \A p \in positions : p <= m) + 1

(* C35: reorderDeviceQueue(imei) gives the PENDING and QUEUED
   subscriptions of the IMEI the positions 1..N, a subscription of higher
   priority before one of lower priority and, at equal priority, the one
   created first before the other; it changes nothing but these positions;
   and applied to its own result it changes nothing. *)
C35_ReorderIdempotent ==
  \A imei \in Imeis :
    LET out == reorderDeviceQueueOutcome(subs, imei)
        Q == Queue(subs, imei)
    IN /\ DOMAIN out = DOMAIN subs
       /\ { out[i].queuePosition : i \in Q } = 1..Cardinality(Q)
       /\ \A i, j \in Q :
            (\/ subs[i].priority > subs[j].priority
             \/ subs[i].priority = subs[j].priority /\ i < j)
              => out[i].queuePosition < out[j].queuePosition
       /\ \A i \in Q : out[i] = [subs[i] EXCEPT !.queuePosition = out[i].queuePosition]
       /\ \A i \in Ids \ Q : out[i] = subs[i]
       /\ reorderDeviceQueueOutcome(out, imei) = out

(* a queue that the reordering has put in order: the subscription created
   later has the higher priority and stands first *)
C35_Witness ==
  \E i, j \in Ids :
    /\ i < j
    /\ subs[i].imei = subs[j].imei
    /\ subs[i].status \in QueueStatuses /\ subs[j].status \in QueueStatuses
    /\ subs[j].priority > subs[i].priority
    /\ subs[j].queuePosition = 1 /\ subs[i].queuePosition = 2
    /\ reorderDeviceQueueOutcome(subs, subs[i].imei) = subs

(* C36: an upgrade that is answered 200 sets the plan and the price of the
   subscription to those of newPlan and its endDate to startDate + the
   duration of newPlan, and changes nothing else of the subscriptions; the
   entry it writes is SUBSCRIPTION_UPGRADED with amount = price(newPlan) -
   price(old plan) > 0, PENDING in the ledger while the subscription is
   still as it was, and COMPLETED once the subscription is updated. *)
C36_UpgradeContract ==
  \A userId \in UserIds, id \in SubIds, newPlan \in PlanInputs :
    upgradeCode(userId, id, newPlan) = 200 =>
      LET before == upgradeSaveErrorOutcome(userId, id, newPlan)
          out == upgradeOutcome(userId, id, newPlan)
          amount == getSubscriptionPrice(newPlan) - getSubscriptionPrice(subs[id].plan)
          pending == before.ledger[id][Len(before.ledger[id])]
          completed == out.ledger[id][Len(out.ledger[id])]
      IN /\ out.subs = [subs EXCEPT
                ![id].plan = newPlan,
                ![id].price = getSubscriptionPrice(newPlan),
                ![id].endDate = subs[id].startDate + getSubscriptionDuration(newPlan)]
         /\ amount > 0
         /\ before.subs = subs
         /\ Len(before.ledger[id]) = Len(ledger[id]) + 1
         /\ pending.type = "SUBSCRIPTION_UPGRADED" /\ pending.status = "PENDING"
         /\ pending.amount = amount
         /\ SubSeq(out.ledger[id], 1, Len(ledger[id])) = ledger[id]
         /\ completed.type = "SUBSCRIPTION_UPGRADED" /\ completed.status = "COMPLETED"
         /\ completed.amount = amount
         /\ \A j \in Ids \ {id} : out.ledger[j] = ledger[j]

(* a subscription upgraded after its day of activation: its end counts from
   its start, and its ledger ends with the completed upgrade *)
C36_Witness ==
  \E id \in Ids :
    /\ subs[id].status = "ACTIVE"
    /\ subs[id].startDate < now
    /\ subs[id].plan # validSubscriptionTypes[1]
    /\ subs[id].endDate = subs[id].startDate + getSubscriptionDuration(subs[id].plan)
    /\ Len(ledger[id]) >= 2
    /\ ledger[id][Len(ledger[id])].type = "SUBSCRIPTION_UPGRADED"
    /\ ledger[id][Len(ledger[id])].status = "COMPLETED"
    /\ ledger[id][Len(ledger[id]) - 1].status = "PENDING"

(* C37: the ledger entries of each subscription are one chain: every entry
   but the first names as previousTransaction the entry written just before
   it for that subscription, and no two entries name the same one. *)
C37_LedgerIsOneChain ==
  \A id \in Ids :
    /\ \A k \in 2..Len(ledger[id]) : ledger[id][k].previousTransaction = k - 1
    /\ \A k, m \in 1..Len(ledger[id]) :
         (k # m /\ ledger[id][k].previousTransaction # Null)
           => ledger[id][k].previousTransaction # ledger[id][m].previousTransaction

(* C38: updateQueuePosition on a subscription of one IMEI leaves the queue
   position of every subscription of any other IMEI as it is. *)
C38_OtherDevicesUntouched ==
  \A id \in Ids, newPosition \in 0..(MaxSubs + 1) :
    \A j \in Ids :
      subs[j].imei # subs[id].imei =>
        updateQueuePositionOutcome(id, newPosition).subs[j].queuePosition =
          subs[j].queuePosition

(* C39: of the approvals and rejections (single or bulk, a bulk list that
   repeats an id included) that run on one PENDING subscription, one takes
   effect: once none is in flight the ledger of the subscription holds no
   second review entry (APPROVED, ACTIVATED or REJECTED), and the entry it
   holds matches the status.  (A subscription without a ledger has no
   entry at all: that case is C5's.) *)
C39_OneReviewDecision ==
  \A id \in Ids :
    LET entries == { k \in 1..Len(ledger[id]) :
                      ledger[id][k].type \in {"SUBSCRIPTION_APPROVED",
                                              "SUBSCRIPTION_ACTIVATED",
                                              "SUBSCRIPTION_REJECTED"} }
    IN (\A r \in inflight : r.id # id) =>
         /\ Cardinality(entries) <= 1
         /\ \A k \in entries :
              subs[id].status =
                CASE ledger[id][k].type = "SUBSCRIPTION_APPROVED" -> "APPROVED"
                  [] ledger[id][k].type = "SUBSCRIPTION_ACTIVATED" -> "ACTIVE"
                  [] OTHER -> "CANCELLED"

(* C40: while a subscription that the OTP activation made ACTIVE stays
   ACTIVE, no step takes the onboarded flag from the device of its identity
   and IMEI. *)
C40_OnboardedWhileActive ==
  [][\A i \in Ids, d \in devices :
       (/\ subs[i].status = "ACTIVE" /\ subs'[i].status = "ACTIVE"
        /\ d.user = subs[i].user /\ d.imei = subs[i].imei
        /\ d.isOnboarded)
         => \A e \in devices' :
              (e.user = d.user /\ e.imei = d.imei) => e.isOnboarded]_vars

====
